---- MODULE Spec2Model ----
(***************************************************************************)
(* Model of the codegraph graph engine: graph traversal (traverseBFS,      *)
(* traverseDFS, GraphQueryService.query), graph construction               *)
(* (GraphBuilderService.buildGraph with resolveImportPath) and graph       *)
(* diffing (GraphDiffService.compareGraphs).                               *)
(*                                                                         *)
(* Strings that the code takes apart or glues together (paths, entity      *)
(* IDs, edge keys) are sequences of tokens, so that concatenation is \o    *)
(* and a separator is a token of its own.  Optional record fields are      *)
(* fields that may be missing from the record's DOMAIN.                    *)
(***************************************************************************)
EXTENDS Integers, Sequences, FiniteSets, TLC

VARIABLES
    pc,              \* position of the running operation
    graph,           \* traversal: the GraphData argument (nodes, edges)
    startEntityId,   \* traversal: the start / root entity ID
    direction,       \* traversal: "forward" or "reverse"
    transitive,      \* traversal: the transitive flag
    bfs,             \* traverseBFS locals: visited, results, queue
    bfsOut,          \* traverseBFS outcome: "running", "returned", "threw"
    dfs,             \* traverseDFS locals: visited, results, call stack
    dfsOut,          \* traverseDFS outcome
    queryOut,        \* GraphQueryService.query outcome
    parsedFiles,     \* buildGraph: the ParsedFile[] argument
    disk,            \* buildGraph: the paths for which fs.existsSync is true
    nodes,           \* buildGraph: nodes under construction
    edges,           \* buildGraph: edges under construction
    skippedEdges,    \* buildGraph: orphaned-edge records
    fileIndex,       \* buildGraph: position of the running for loop over parsedFiles
    buildOut,        \* buildGraph: outcome (failure, warning, returned graph)
    graph1,          \* compareGraphs: first graph
    graph2,          \* compareGraphs: second graph
    diff,            \* compareGraphs(graph1, graph2): the returned GraphDiff
    diffRev,         \* compareGraphs(graph2, graph1): the returned GraphDiff
    identical,       \* areGraphsIdentical(graph1, graph2): the returned boolean
    impactGraph,     \* analyzeImpact: the GraphData argument
    changedFiles,    \* analyzeImpact: the changedFiles argument
    report,          \* analyzeImpact: the returned ImpactReport
    threshold,       \* filterByThreshold: the threshold argument
    filtered,        \* filterByThreshold: the returned ImpactReport
    metricsIn,       \* calculateRiskLevel: the metrics argument
    riskOut,         \* calculateRiskLevel: the returned RiskLevel
    projectTsConfig, \* buildGraph: what loadTsConfig(projectRoot) yields, {} for null
    resolveFrom,     \* resolveImportPath: the importFrom argument
    resolveConfig,   \* resolveImportPath: the tsConfig argument, {} for null
    resolverDisk,    \* resolveImportPath: the file system the probes see
    matchOut,        \* matchPathAlias: the returned candidates
    resolved,        \* resolveImportPath: the result, {} for null
    idParts,         \* entity IDs: the components given to a format function
    idText,          \* parseEntityId: the entityId argument
    parsedId,        \* parseEntityId: the returned components, or the failure
    related,         \* getDependencies / getDependents: the returned list, or the failure
    cycleGraph,      \* detectCycles: the GraphData argument
    cyclesOut,       \* detectCycles: the returned list of cycles
    tsconfigCache,   \* tsconfig.util: the module's Map from project root to result
    tsconfigFiles,   \* the tsconfig.json of each project root on the file system
    nextObject,      \* identity of the next TsConfigPaths object loadTsConfig creates
    loadOut,         \* loadTsConfig: the last call, its result, whether it read the file system
    returnedSinceClear \* history: per project root, the results returned since the last clear

tvars == <<graph, startEntityId, direction, transitive, bfs, bfsOut, dfs, dfsOut, queryOut>>
bvars == <<parsedFiles, disk, projectTsConfig, nodes, edges, skippedEdges, fileIndex, buildOut>>
dvars == <<graph1, graph2, diff, diffRev, identical>>
ivars == <<impactGraph, changedFiles, report, threshold, filtered, metricsIn, riskOut>>
rvars == <<resolveFrom, resolveConfig, resolverDisk, matchOut, resolved>>
evars == <<idParts, idText, parsedId>>
qvars == <<related>>
cvars == <<cycleGraph, cyclesOut>>
lvars == <<tsconfigCache, tsconfigFiles, nextObject, loadOut, returnedSinceClear>>
ovars == <<evars, qvars, cvars, lvars>>
vars == <<pc, tvars, bvars, dvars, ivars, rvars, ovars>>

----
(* Generic helpers *)

\* The set of elements of a sequence.
Range(s) == {s[i] : i \in 1..Len(s)}

\* All sequences over S of length at most n.
SeqsUpTo(S, n) == UNION {[1..k -> S] : k \in 0..n}

\* An optional field of a record: {} when absent (undefined), {value} otherwise.
Field(r, f) == IF f \in DOMAIN r THEN {r[f]} ELSE {}

\* The truthiness of an optional string: null, undefined and '' are falsy.
Truthy(opt) == opt # {} /\ opt # {<<>>}

\* Array.prototype.map
MapSeq(s, F(_)) == [i \in 1..Len(s) |-> F(s[i])]

----
(* Graph traversal: src/unnamed/part_003 (utils/graph-traversal.util.ts)   *)

\* Bound on the number of edges of a traversed graph.
MaxEdges == 3

\* Entity IDs used as traversal inputs.
Entities == {"A", "B", "C"}

\* Node maps of the traversal inputs: every entity has a node, or "C" has none
\* (so that a start entity, or an edge endpoint, may lack a node).
NodeMaps == {[e \in K |-> [type |-> "file"]] : K \in {Entities, Entities \ {"C"}}}

TraversalEdge == [source : Entities, relationship : {"imports"}, target : Entities]

\* getNeighbors(edges, entityId, direction)
getNeighbors_swapped(es, entityId, dir) ==
    IF dir = "forward"
    THEN MapSeq(SelectSeq(es, LAMBDA e : e.target = entityId), LAMBDA e : e.source)
    ELSE MapSeq(SelectSeq(es, LAMBDA e : e.source = entityId), LAMBDA e : e.target)

getNeighbors(es, entityId, dir) ==
    IF dir = "forward"
    THEN MapSeq(SelectSeq(es, LAMBDA e : e.source = entityId), LAMBDA e : e.target)
    ELSE MapSeq(SelectSeq(es, LAMBDA e : e.target = entityId), LAMBDA e : e.source)

\* `!graph.nodes[startEntityId]` with the test dropped.
NotFound_never(g, id) == FALSE

\* `!graph.nodes[startEntityId]`: the start entity has no node.
NotFound(g, id) == id \notin DOMAIN g.nodes

\* Locals of traverseBFS after lines 30-34.  `adds` counts the executions of
\* visited.add (line 44).
BFSInit(start) ==
    [visited |-> {}, results |-> <<>>, adds |-> 0,
     queue |-> <<[entityId |-> start, depth |-> 0, path |-> <<start>>]>>]

\* The queue entries pushed by the for loop of lines 63-71.
BFSPush(current, neighbors, visited) ==
    MapSeq(SelectSeq(neighbors, LAMBDA n : n \notin visited),
           LAMBDA n : [entityId |-> n, depth |-> current.depth + 1,
                       path |-> Append(current.path, n)])

\* BFSIter without the skip of an already visited queue entry (lines 40-42).
BFSIter_noVisitedCheck(g, start, dir, trans, st) ==
    LET current == Head(st.queue)
        rest == Tail(st.queue)
        visited2 == st.visited \cup {current.entityId}
        results2 == IF current.entityId # start
                    THEN Append(st.results, [entityId |-> current.entityId,
                                             depth |-> current.depth,
                                             path |-> current.path])
                    ELSE st.results
    IN  IF ~trans /\ current.depth > 0
        THEN [st EXCEPT !.queue = rest, !.visited = visited2,
                        !.results = results2, !.adds = @ + 1]
        ELSE [st EXCEPT !.visited = visited2, !.results = results2, !.adds = @ + 1,
                        !.queue = rest \o BFSPush(current,
                                      getNeighbors(g.edges, current.entityId, dir),
                                      visited2)]

\* BFSIter without the direct-only cut of lines 56-58.
BFSIter_alwaysExpand(g, start, dir, trans, st) ==
    LET current == Head(st.queue)
        rest == Tail(st.queue)
        visited2 == st.visited \cup {current.entityId}
        results2 == IF current.entityId # start
                    THEN Append(st.results, [entityId |-> current.entityId,
                                             depth |-> current.depth,
                                             path |-> current.path])
                    ELSE st.results
    IN  IF current.entityId \in st.visited
        THEN [st EXCEPT !.queue = rest]
        ELSE [st EXCEPT !.visited = visited2, !.results = results2, !.adds = @ + 1,
                        !.queue = rest \o BFSPush(current,
                                      getNeighbors(g.edges, current.entityId, dir),
                                      visited2)]

\* BFSIter with the neighbours put at the front of the queue (unshift for push).
BFSIter_lifo(g, start, dir, trans, st) ==
    LET current == Head(st.queue)
        rest == Tail(st.queue)
        visited2 == st.visited \cup {current.entityId}
        results2 == IF current.entityId # start
                    THEN Append(st.results, [entityId |-> current.entityId,
                                             depth |-> current.depth,
                                             path |-> current.path])
                    ELSE st.results
    IN  IF current.entityId \in st.visited
        THEN [st EXCEPT !.queue = rest]
        ELSE IF ~trans /\ current.depth > 0
        THEN [st EXCEPT !.queue = rest, !.visited = visited2,
                        !.results = results2, !.adds = @ + 1]
        ELSE [st EXCEPT !.visited = visited2, !.results = results2, !.adds = @ + 1,
                        !.queue = BFSPush(current,
                                      getNeighbors(g.edges, current.entityId, dir),
                                      visited2) \o rest]

\* BFSIter that takes the entry off the queue only after the visited check
\* (shift moved below the `continue` of line 41).
BFSIter_noShift(g, start, dir, trans, st) ==
    LET current == Head(st.queue)
        rest == Tail(st.queue)
        visited2 == st.visited \cup {current.entityId}
        results2 == IF current.entityId # start
                    THEN Append(st.results, [entityId |-> current.entityId,
                                             depth |-> current.depth,
                                             path |-> current.path])
                    ELSE st.results
    IN  IF current.entityId \in st.visited
        THEN st
        ELSE IF ~trans /\ current.depth > 0
        THEN [st EXCEPT !.queue = rest, !.visited = visited2,
                        !.results = results2, !.adds = @ + 1]
        ELSE [st EXCEPT !.visited = visited2, !.results = results2, !.adds = @ + 1,
                        !.queue = rest \o BFSPush(current,
                                      getNeighbors(g.edges, current.entityId, dir),
                                      visited2)]

\* One iteration of the while loop of traverseBFS (lines 36-72).
BFSIter(g, start, dir, trans, st) ==
    LET current == Head(st.queue)
        rest == Tail(st.queue)
        visited2 == st.visited \cup {current.entityId}
        results2 == IF current.entityId # start
                    THEN Append(st.results, [entityId |-> current.entityId,
                                             depth |-> current.depth,
                                             path |-> current.path])
                    ELSE st.results
    IN  IF current.entityId \in st.visited
        THEN [st EXCEPT !.queue = rest]
        ELSE IF ~trans /\ current.depth > 0
        THEN [st EXCEPT !.queue = rest, !.visited = visited2,
                        !.results = results2, !.adds = @ + 1]
        ELSE [st EXCEPT !.visited = visited2, !.results = results2, !.adds = @ + 1,
                        !.queue = rest \o BFSPush(current,
                                      getNeighbors(g.edges, current.entityId, dir),
                                      visited2)]

\* traverseBFS as a function: the results once the queue is exhausted.
\* Only applied when the start entity has a node.
RECURSIVE BFSRun(_, _, _, _, _)
BFSRun(g, start, dir, trans, st) ==
    IF st.queue = <<>> THEN st.results
    ELSE BFSRun(g, start, dir, trans, BFSIter(g, start, dir, trans, st))

traverseBFS(g, start, dir, trans) == BFSRun(g, start, dir, trans, BFSInit(start))

\* Locals of traverseDFS after lines 96-97, before the first call of dfs.
\* `stack` holds one frame per active call of dfs that has reached its for
\* loop; `todo` is the part of `neighbors` the loop has not yet taken.
DFSInit == [visited |-> {}, results |-> <<>>, adds |-> 0, stack |-> <<>>]

\* DFSCall with the direct-only cut one level too deep (depth > 1).
DFSCall_deepCut(g, start, dir, trans, st, entityId, depth, path) ==
    LET visited2 == st.visited \cup {entityId}
        results2 == IF entityId # start
                    THEN Append(st.results, [entityId |-> entityId, depth |-> depth,
                                             path |-> path])
                    ELSE st.results
    IN  IF entityId \in st.visited
        THEN st
        ELSE IF ~trans /\ depth > 1
        THEN [st EXCEPT !.visited = visited2, !.results = results2, !.adds = @ + 1]
        ELSE [st EXCEPT !.visited = visited2, !.results = results2, !.adds = @ + 1,
                        !.stack = Append(@, [entityId |-> entityId, depth |-> depth,
                                             path |-> path,
                                             todo |-> getNeighbors(g.edges, entityId, dir)])]

\* A call dfs(entityId, depth, path) up to the start of its for loop
\* (lines 99-126).
DFSCall(g, start, dir, trans, st, entityId, depth, path) ==
    LET visited2 == st.visited \cup {entityId}
        results2 == IF entityId # start
                    THEN Append(st.results, [entityId |-> entityId, depth |-> depth,
                                             path |-> path])
                    ELSE st.results
    IN  IF entityId \in st.visited
        THEN st
        ELSE IF ~trans /\ depth > 0
        THEN [st EXCEPT !.visited = visited2, !.results = results2, !.adds = @ + 1]
        ELSE [st EXCEPT !.visited = visited2, !.results = results2, !.adds = @ + 1,
                        !.stack = Append(@, [entityId |-> entityId, depth |-> depth,
                                             path |-> path,
                                             todo |-> getNeighbors(g.edges, entityId, dir)])]

\* One step of the innermost active call of dfs: one iteration of its for
\* loop (lines 128-132), or its return when the loop is over.
DFSIter(g, start, dir, trans, st) ==
    LET n == Len(st.stack)
        top == st.stack[n]
        neighbor == Head(top.todo)
        st1 == [st EXCEPT !.stack[n].todo = Tail(@)]
    IN  IF top.todo = <<>>
        THEN [st EXCEPT !.stack = SubSeq(@, 1, n - 1)]
        ELSE IF neighbor \notin st.visited
        THEN DFSCall(g, start, dir, trans, st1, neighbor, top.depth + 1,
                     Append(top.path, neighbor))
        ELSE st1

----
(* Cycle detection: src/unnamed/part_003 (detectCycles, lines 210-243)      *)

\* Array.prototype.indexOf: the 0-based position of the first x, or -1.
IndexOf(arr, x) ==
    IF \E i \in 1..Len(arr) : arr[i] = x
    THEN (CHOOSE i \in 1..Len(arr) : arr[i] = x /\ \A j \in 1..(i - 1) : arr[j] # x) - 1
    ELSE -1

\* Array.prototype.slice(start): a negative start counts from the end.
Slice(arr, start) ==
    LET from == IF start < 0
                THEN (IF Len(arr) + start < 0 THEN 0 ELSE Len(arr) + start)
                ELSE start
    IN  SubSeq(arr, from + 1, Len(arr))

\* Locals of detectCycles (lines 211-213).
CyclesInit == [visited |-> {}, recursionStack |-> {}, cycles |-> <<>>]

\* The cycle pushed at lines 225-229 with the whole path in place of its
\* suffix.
FoundCycle_wholePath(path, neighbor) == path

\* The cycle pushed at lines 225-229.
FoundCycle(path, neighbor) == Slice(path, IndexOf(path, neighbor))

\* The inner function dfs (lines 215-233) and its for loop over the
\* neighbours not yet taken.
RECURSIVE CycleDfs(_, _, _, _)
RECURSIVE CycleLoop(_, _, _, _)
CycleLoop(g, st, path, todo) ==
    IF todo = <<>> THEN st
    ELSE LET neighbor == Head(todo)
         IN  IF neighbor \notin st.visited
             THEN CycleLoop(g, CycleDfs(g, st, neighbor, Append(path, neighbor)),
                            path, Tail(todo))
             ELSE IF neighbor \in st.recursionStack
             THEN CycleLoop(g,
                            [st EXCEPT !.cycles = Append(@, FoundCycle(path, neighbor))],
                            path, Tail(todo))
             ELSE CycleLoop(g, st, path, Tail(todo))

CycleDfs(g, st, entityId, path) ==
    LET entered == [st EXCEPT !.visited = @ \cup {entityId},
                              !.recursionStack = @ \cup {entityId}]
        after == CycleLoop(g, entered, path, getNeighbors(g.edges, entityId, "forward"))
    IN  [after EXCEPT !.recursionStack = @ \ {entityId}]

\* The loop of lines 236-240 over the keys not yet taken, with the
\* `!visited.has(entityId)` test applied to the first key only.
RECURSIVE CycleScan_firstKeyOnly(_, _, _)
CycleScan_firstKeyOnly(g, st, keys) ==
    IF keys = <<>> THEN st
    ELSE CycleDfs(g, st, Head(keys), <<Head(keys)>>)

\* The loop of lines 236-240 over the keys not yet taken.
RECURSIVE CycleScan(_, _, _)
CycleScan(g, st, keys) ==
    IF keys = <<>> THEN st
    ELSE IF Head(keys) \notin st.visited
    THEN CycleScan(g, CycleDfs(g, st, Head(keys), <<Head(keys)>>), Tail(keys))
    ELSE CycleScan(g, st, Tail(keys))

\* detectCycles (lines 210-243); Object.keys(graph.nodes) is g.keys.
detectCycles(g) == CycleScan(g, CyclesInit, g.keys).cycles

----
(* Graph query: src/src/app.module.ts (services/graph-query.service.ts)    *)

\* getRelationship that takes the last edge from sourceId to targetId.
getRelationship_lastEdge(g, sourceId, targetId) ==
    LET found == SelectSeq(g.edges, LAMBDA e : e.source = sourceId /\ e.target = targetId)
    IN  IF found = <<>> THEN <<>> ELSE [relationship |-> found[Len(found)].relationship]

\* getRelationship: the label of the first edge from sourceId to targetId, as
\* an optional field (edge?.relationship is undefined when there is none).
getRelationship(g, sourceId, targetId) ==
    LET found == SelectSeq(g.edges, LAMBDA e : e.source = sourceId /\ e.target = targetId)
    IN  IF found = <<>> THEN <<>> ELSE [relationship |-> Head(found).relationship]

\* The enrichment shared by getDependencies and getDependents.
Enrich(g, results, Rel(_)) ==
    MapSeq(SelectSeq(results, LAMBDA r : r.entityId \in DOMAIN g.nodes),
           LAMBDA r : [entityId |-> r.entityId, node |-> g.nodes[r.entityId],
                       depth |-> r.depth, path |-> r.path] @@ Rel(r.entityId))

getDependencies(g, entityId, trans) ==
    Enrich(g, traverseBFS(g, entityId, "forward", trans),
           LAMBDA x : getRelationship(g, entityId, x))

getDependents(g, entityId, trans) ==
    Enrich(g, traverseBFS(g, entityId, "reverse", trans),
           LAMBDA x : getRelationship(g, x, entityId))

\* GraphQueryService.query: "threw" when the root entity has no node.
query(g, entityId, qdir, trans) ==
    IF entityId \notin DOMAIN g.nodes
    THEN [threw |-> "EntityNotFound"]
    ELSE LET entity == g.nodes[entityId]
             entities == IF qdir = "dependencies"
                         THEN getDependencies(g, entityId, trans)
                         ELSE getDependents(g, entityId, trans)
             uniqueFiles == UNION {Field(e.node, "file") : e \in Range(entities)}
         IN  [entityId |-> entityId, type |-> entity.type, entities |-> entities,
              totalCount |-> Len(entities), fileCount |-> Cardinality(uniqueFiles)]

----
(* Paths: src/unnamed/part_002 (utils/path.util.ts) and Node's path module  *)
(* A path is a sequence of tokens; "/" is the separator token.              *)

\* The segments of a path: the token runs between "/" tokens.
RECURSIVE SplitPath(_)
SplitPath(p) ==
    IF \A i \in 1..Len(p) : p[i] # "/"
    THEN <<p>>
    ELSE LET k == CHOOSE i \in 1..Len(p) :
                      p[i] = "/" /\ \A j \in 1..(i - 1) : p[j] # "/"
         IN  <<SubSeq(p, 1, k - 1)>> \o SplitPath(SubSeq(p, k + 1, Len(p)))

\* Segments glued with "/".
RECURSIVE JoinSegments(_)
JoinSegments(segs) ==
    IF segs = <<>> THEN <<>>
    ELSE IF Len(segs) = 1 THEN segs[1]
    ELSE segs[1] \o <<"/">> \o JoinSegments(Tail(segs))

\* path.dirname of a relative path without trailing separator.
dirname(p) ==
    LET segs == SplitPath(p)
    IN  IF Len(segs) <= 1 THEN <<".">> ELSE JoinSegments(SubSeq(segs, 1, Len(segs) - 1))

\* The normalisation of path.join / path.relative on the segments of an
\* absolute path: empty and "." segments vanish, ".." removes the segment
\* before it (and is dropped at the root).
RECURSIVE NormalizeSegments(_, _)
NormalizeSegments(segs, acc) ==
    IF segs = <<>> THEN acc
    ELSE LET h == Head(segs)
         IN  IF h = <<>> \/ h = <<".">> THEN NormalizeSegments(Tail(segs), acc)
             ELSE IF h = <<"..">>
             THEN NormalizeSegments(Tail(segs),
                                    IF acc = <<>> THEN acc ELSE SubSeq(acc, 1, Len(acc) - 1))
             ELSE NormalizeSegments(Tail(segs), Append(acc, h))

\* The segments of path.join(a, b, c) for an absolute a.
JoinedSegments(a, b, c) ==
    NormalizeSegments(SplitPath(a) \o SplitPath(b) \o SplitPath(c), <<>>)

\* path.join(a, b, c) for an absolute a: an absolute, normalised path.
pathJoin(a, b, c) == <<"/">> \o JoinSegments(JoinedSegments(a, b, c))

\* The number of leading segments two segment lists share.
RECURSIVE CommonPrefix(_, _)
CommonPrefix(a, b) ==
    IF a = <<>> \/ b = <<>> \/ Head(a) # Head(b) THEN 0
    ELSE 1 + CommonPrefix(Tail(a), Tail(b))

\* path.relative(from, to) for two absolute paths.
pathRelative(from, to) ==
    LET f == NormalizeSegments(SplitPath(from), <<>>)
        t == NormalizeSegments(SplitPath(to), <<>>)
        k == CommonPrefix(f, t)
    IN  JoinSegments([i \in 1..(Len(f) - k) |-> <<"..">>] \o SubSeq(t, k + 1, Len(t)))

\* normalizePath (lines 9-14): relative to the project root, "\" turned into "/".
normalizePath(absolutePath, projectRoot) ==
    MapSeq(pathRelative(projectRoot, absolutePath),
           LAMBDA t : IF t = "\\" THEN "/" ELSE t)

\* The five candidates with the bare path probed first.
Candidates_bareFirst(basePath) ==
    << basePath,
       basePath \o <<".ts">>,
       basePath \o <<".tsx">>,
       basePath \o <<"/", "index", ".ts">>,
       basePath \o <<"/", "index", ".tsx">> >>

\* The five candidates of tryResolveCandidates (lines 257-263), in probe order.
Candidates(basePath) ==
    << basePath \o <<".ts">>,
       basePath \o <<".tsx">>,
       basePath \o <<"/", "index", ".ts">>,
       basePath \o <<"/", "index", ".tsx">>,
       basePath >>

\* fs.existsSync inside the try of lines 266-273: an exception counts as "no".
ProbeExists(fsys, candidate) ==
    candidate \notin fsys.throws /\ candidate \in fsys.exists

\* tryResolveCandidates that takes the base paths from the last to the first.
RECURSIVE tryResolveCandidates_lastFirst(_, _, _)
tryResolveCandidates_lastFirst(fsys, basePaths, projectRoot) ==
    IF basePaths = <<>> THEN {}
    ELSE LET cands == Candidates(basePaths[Len(basePaths)])
             hits == {i \in 1..Len(cands) : ProbeExists(fsys, cands[i])}
         IN  IF hits # {}
             THEN {normalizePath(cands[CHOOSE i \in hits : \A j \in hits : i <= j],
                                 projectRoot)}
             ELSE tryResolveCandidates_lastFirst(
                      fsys, SubSeq(basePaths, 1, Len(basePaths) - 1), projectRoot)

\* tryResolveCandidates (lines 254-279): {} is null, {p} a resolved path.
RECURSIVE tryResolveCandidates(_, _, _)
tryResolveCandidates(fsys, basePaths, projectRoot) ==
    IF basePaths = <<>> THEN {}
    ELSE LET cands == Candidates(Head(basePaths))
             hits == {i \in 1..Len(cands) : ProbeExists(fsys, cands[i])}
         IN  IF hits # {}
             THEN {normalizePath(cands[CHOOSE i \in hits : \A j \in hits : i <= j],
                                 projectRoot)}
             ELSE tryResolveCandidates(fsys, Tail(basePaths), projectRoot)

\* importFrom.startsWith('.'): the first token begins with a dot.
StartsWithDot(str) == str # <<>> /\ Head(str) \in {".", "..", ".ts", ".tsx"}

----
(* Path aliases: src/unnamed/part_000 (utils/tsconfig.util.ts)              *)
(* A TsConfigPaths value has an optional baseUrl ({} or {path}) and `paths`, *)
(* the entries of the paths object in the order of Object.keys, each with   *)
(* its pattern and its replacement templates.  "*" is a token of its own,   *)
(* and no token of a pattern or specifier is the beginning of another.      *)

\* The number of characters of a token.
TokenLength(t) ==
    CASE t = "api" -> 3
      [] t = "users" -> 5
      [] t = "lodash" -> 6
      [] t = "core" -> 4
      [] OTHER -> 1

\* String.prototype.length
StringLength(str) ==
    LET RECURSIVE Sum(_)
        Sum(k) == IF k = 0 THEN 0 ELSE TokenLength(str[k]) + Sum(k - 1)
    IN  Sum(Len(str))

\* a.replace(/\*/g, '').length (lines 209-210)
Specificity(pattern) == StringLength(SelectSeq(pattern, LAMBDA t : t # "*"))

\* Object.keys(paths) in the order of the configuration.
SortedPatterns_configOrder(paths) == MapSeq(paths, LAMBDA e : e.pattern)

\* sortedPatterns (lines 207-212): Object.keys(paths) sorted, stably, by
\* decreasing specificity.
SortedPatterns(paths) ==
    LET keys == MapSeq(paths, LAMBDA e : e.pattern)
        Before(i, j) == \/ Specificity(keys[i]) > Specificity(keys[j])
                        \/ Specificity(keys[i]) = Specificity(keys[j]) /\ i < j
        Rank(i) == 1 + Cardinality({j \in 1..Len(keys) : Before(j, i)})
    IN  [r \in 1..Len(keys) |-> keys[CHOOSE i \in 1..Len(keys) : Rank(i) = r]]

\* pattern.split('*')
RECURSIVE SplitStar(_)
SplitStar(p) ==
    IF \A i \in 1..Len(p) : p[i] # "*"
    THEN <<p>>
    ELSE LET k == CHOOSE i \in 1..Len(p) :
                      p[i] = "*" /\ \A j \in 1..(i - 1) : p[j] # "*"
         IN  <<SubSeq(p, 1, k - 1)>> \o SplitStar(SubSeq(p, k + 1, Len(p)))

\* String.prototype.startsWith and endsWith
StartsWith(str, prefix) ==
    Len(prefix) <= Len(str) /\ SubSeq(str, 1, Len(prefix)) = prefix

EndsWith(str, suffix) ==
    Len(suffix) <= Len(str) /\ SubSeq(str, Len(str) - Len(suffix) + 1, Len(str)) = suffix

\* matchPattern (lines 248-267): {} is null, {w} the matched wildcard part.
matchPattern(importPath, pattern) ==
    IF \A i \in 1..Len(pattern) : pattern[i] # "*"
    THEN IF importPath = pattern THEN {<<>>} ELSE {}
    ELSE LET parts == SplitStar(pattern)
             prefix == parts[1]
             suffix == parts[2]
             wildcardPart == SubSeq(importPath, Len(prefix) + 1, Len(importPath))
         IN  IF StartsWith(importPath, prefix) /\ EndsWith(importPath, suffix)
             THEN IF suffix # <<>>
                  THEN {SubSeq(wildcardPart, 1, Len(wildcardPart) - Len(suffix))}
                  ELSE {wildcardPart}
             ELSE {}

\* mappedPath.replace('*', match): the first "*" gives way to the match.
ReplaceStar(mappedPath, match) ==
    IF \A i \in 1..Len(mappedPath) : mappedPath[i] # "*"
    THEN mappedPath
    ELSE LET k == CHOOSE i \in 1..Len(mappedPath) :
                      mappedPath[i] = "*" /\ \A j \in 1..(i - 1) : mappedPath[j] # "*"
         IN  SubSeq(mappedPath, 1, k - 1) \o match
             \o SubSeq(mappedPath, k + 1, Len(mappedPath))

\* The entry of `paths` with the given pattern: paths[pattern].
PathsEntry(paths, pattern) ==
    paths[CHOOSE i \in 1..Len(paths) : paths[i].pattern = pattern]

\* The candidate pushed for one mapped path (lines 223-231).
AliasFullPath(config, projectRoot, mappedPath, match) ==
    LET resolvedPath == ReplaceStar(mappedPath, match)
        basePath == IF Truthy(config.baseUrl)
                    THEN pathJoin(projectRoot, CHOOSE b \in config.baseUrl : TRUE, <<>>)
                    ELSE projectRoot
    IN  pathJoin(basePath, resolvedPath, <<>>)

\* matchPathAlias (lines 188-240)
matchPathAlias(importPath, config, projectRoot) ==
    IF StartsWithDot(importPath) \/ Len(config.paths) = 0
    THEN <<>>
    ELSE LET sortedPatterns == SortedPatterns(config.paths)
             matching == {i \in 1..Len(sortedPatterns) :
                            matchPattern(importPath, sortedPatterns[i]) # {}}
         IN  IF matching = {} THEN <<>>
             ELSE LET first == CHOOSE i \in matching : \A j \in matching : i <= j
                      pattern == sortedPatterns[first]
                      match == CHOOSE w \in matchPattern(importPath, pattern) : TRUE
                  IN  MapSeq(PathsEntry(config.paths, pattern).mappedPaths,
                             LAMBDA mappedPath :
                                 AliasFullPath(config, projectRoot, mappedPath, match))

----
(* Import resolution: src/unnamed/part_002 (utils/path.util.ts)             *)

\* resolveImportPath (lines 221-246): tsConfig is {} (null or not given) or
\* {config}; the result is {} (null) or {path}.
resolveImportPath(fsys, importFrom, fromFile, projectRoot, tsConfig) ==
    IF StartsWithDot(importFrom)
    THEN tryResolveCandidates(fsys,
                              <<pathJoin(projectRoot, dirname(fromFile), importFrom)>>,
                              projectRoot)
    ELSE IF tsConfig # {}
    THEN LET aliasCandidates ==
                 matchPathAlias(importFrom, CHOOSE c \in tsConfig : TRUE, projectRoot)
         IN  IF Len(aliasCandidates) > 0
             THEN tryResolveCandidates(fsys, aliasCandidates, projectRoot)
             ELSE {}
    ELSE {}

----
(* Entity IDs: src/src/utils/entity-id.util.ts                              *)

formatFileId(filePath) == filePath

formatClassId(filePath, className) == filePath \o <<"::">> \o className

formatMethodId(filePath, className, methodName) ==
    filePath \o <<"::">> \o className \o <<"::">> \o methodName

formatFunctionId(filePath, functionName) == filePath \o <<"::">> \o functionName

formatInterfaceId(filePath, interfaceName) == filePath \o <<"::">> \o interfaceName

\* The characters of an entity ID: the separator token "::" is two colons,
\* and a colon inside a component is the one-character token ":".
RECURSIVE IdCharacters(_)
IdCharacters(str) ==
    IF str = <<>> THEN <<>>
    ELSE (IF Head(str) = "::" THEN <<":", ":">> ELSE <<Head(str)>>) \o IdCharacters(Tail(str))

\* String.prototype.split('::') on the characters that follow `current`:
\* the separator is taken at its leftmost occurrence, then the rest is split.
RECURSIVE SplitSeparator(_, _)
SplitSeparator(chars, current) ==
    IF chars = <<>> THEN <<current>>
    ELSE IF Len(chars) >= 2 /\ chars[1] = ":" /\ chars[2] = ":"
    THEN <<current>> \o SplitSeparator(SubSeq(chars, 3, Len(chars)), <<>>)
    ELSE SplitSeparator(Tail(chars), Append(current, Head(chars)))

\* parseEntityId that returns the first three segments of a longer ID.
parseEntityId_noFailure(id) ==
    LET parts == SplitSeparator(IdCharacters(id), <<>>)
    IN  IF Len(parts) = 1 THEN [filePath |-> parts[1]]
        ELSE IF Len(parts) = 2 THEN [filePath |-> parts[1], className |-> parts[2]]
        ELSE [filePath |-> parts[1], className |-> parts[2], memberName |-> parts[3]]

\* parseEntityId (lines 66-92): the components, or the thrown Error.
parseEntityId(id) ==
    LET parts == SplitSeparator(IdCharacters(id), <<>>)
    IN  IF Len(parts) = 1 THEN [filePath |-> parts[1]]
        ELSE IF Len(parts) = 2 THEN [filePath |-> parts[1], className |-> parts[2]]
        ELSE IF Len(parts) = 3
        THEN [filePath |-> parts[1], className |-> parts[2], memberName |-> parts[3]]
        ELSE [threw |-> "Invalid entity ID format"]

----
(* Graph builder: src/src/services/graph-builder.service.ts                 *)

\* nodes[key] = value on a Record<string, Node>.
Put(m, key, value) == [k \in DOMAIN m \cup {key} |-> IF k = key THEN value ELSE m[k]]

\* The assignments of a list, applied in order.
RECURSIVE PutAll(_, _)
PutAll(m, assignments) ==
    IF assignments = <<>> THEN m
    ELSE PutAll(Put(m, Head(assignments).key, Head(assignments).value), Tail(assignments))

\* Sequence of sequences, concatenated.
RECURSIVE Concat(_)
Concat(ss) == IF ss = <<>> THEN <<>> ELSE Head(ss) \o Concat(Tail(ss))

\* The node assignments of one class (lines 79-96): the class, then its methods.
ClassNodes(filePath, classDecl) ==
    << [key |-> formatClassId(filePath, classDecl.name),
        value |-> [type |-> "class", file |-> filePath,
                   line |-> classDecl.line, endLine |-> classDecl.endLine]] >>
    \o MapSeq(classDecl.methods,
              LAMBDA m : [key |-> formatMethodId(filePath, classDecl.name, m.name),
                          value |-> [type |-> "method", file |-> filePath,
                                     line |-> m.line, endLine |-> m.endLine]])

\* addFileNodes (lines 69-109).
addFileNodes(parsedFile, ns) ==
    PutAll(ns,
           << [key |-> formatFileId(parsedFile.filePath), value |-> [type |-> "file"]] >>
           \o Concat(MapSeq(parsedFile.classes,
                            LAMBDA c : ClassNodes(parsedFile.filePath, c)))
           \o MapSeq(parsedFile.functions,
                     LAMBDA f : [key |-> formatFunctionId(parsedFile.filePath, f.name),
                                 value |-> [type |-> "function",
                                            file |-> parsedFile.filePath,
                                            line |-> f.line, endLine |-> f.endLine]]))

\* resolveClassName (lines 220-225) and resolveInterfaceName (lines 230-237):
\* always null.
resolveClassName(className, currentFile) == {}

resolveInterfaceName(interfaceName, currentFile) == {}

\* call.includes('.')
IncludesDot(call) == \E i \in 1..Len(call) : call[i] \in {".", "..", ".ts", ".tsx"}

\* call.startsWith('this.')
StartsWithThisDot(call) == Len(call) >= 2 /\ call[1] = "this" /\ call[2] = "."

\* resolveCallTarget that takes `this.` calls of a function for calls of
\* functions of the file.
resolveCallTarget_thisInFunction(call, currentFile, currentClass) ==
    IF StartsWithThisDot(call)
    THEN IF currentClass # {}
         THEN {formatMethodId(currentFile, CHOOSE c \in currentClass : TRUE,
                              SubSeq(call, 3, Len(call)))}
         ELSE {formatFunctionId(currentFile, SubSeq(call, 3, Len(call)))}
    ELSE IF ~IncludesDot(call)
    THEN {formatFunctionId(currentFile, call)}
    ELSE {}

\* resolveCallTarget (lines 245-265); currentClass is {} when not given.
resolveCallTarget(call, currentFile, currentClass) ==
    IF StartsWithThisDot(call) /\ currentClass # {}
    THEN {formatMethodId(currentFile, CHOOSE c \in currentClass : TRUE,
                         SubSeq(call, 3, Len(call)))}
    ELSE IF ~IncludesDot(call)
    THEN {formatFunctionId(currentFile, call)}
    ELSE {}

\* ImportOutcome without the `if (nodes[targetId])` test of line 133.
ImportOutcome_noNodeCheck(fsys, ns, filePath, imp, projectRoot) ==
    LET targetPath == resolveImportPath(fsys, imp.from, filePath, projectRoot, {})
        targetId == formatFileId(CHOOSE t \in targetPath : TRUE)
    IN  IF imp.isTypeOnly \/ ~Truthy(targetPath)
        THEN [edges |-> <<>>, skipped |-> <<>>]
        ELSE [edges |-> <<[source |-> formatFileId(filePath), relationship |-> "imports",
                           target |-> targetId]>>,
              skipped |-> <<>>]

\* ImportOutcome without the `if (imp.isTypeOnly) continue` of line 126.
ImportOutcome_typeOnlyToo(fsys, ns, filePath, imp, projectRoot) ==
    LET targetPath == resolveImportPath(fsys, imp.from, filePath, projectRoot, {})
        targetId == formatFileId(CHOOSE t \in targetPath : TRUE)
    IN  IF ~Truthy(targetPath)
        THEN [edges |-> <<>>, skipped |-> <<>>]
        ELSE IF targetId \in DOMAIN ns
        THEN [edges |-> <<[source |-> formatFileId(filePath), relationship |-> "imports",
                           target |-> targetId]>>,
              skipped |-> <<>>]
        ELSE [edges |-> <<>>,
              skipped |-> <<[source |-> formatFileId(filePath), target |-> targetId,
                             reason |-> "Target file not parsed as node"]>>]

\* The outcome of one import in addFileEdges (lines 125-148): an edge, a
\* skipped-edge record or nothing.
ImportOutcome(fsys, ns, filePath, imp, projectRoot) ==
    LET Outcome(targetPath) ==
            LET targetId == formatFileId(CHOOSE t \in targetPath : TRUE)
            IN  IF imp.isTypeOnly \/ ~Truthy(targetPath)
                THEN [edges |-> <<>>, skipped |-> <<>>]
                ELSE IF targetId \in DOMAIN ns
                THEN [edges |-> <<[source |-> formatFileId(filePath),
                                   relationship |-> "imports", target |-> targetId]>>,
                      skipped |-> <<>>]
                ELSE [edges |-> <<>>,
                      skipped |-> <<[source |-> formatFileId(filePath), target |-> targetId,
                                     reason |-> "Target file not parsed as node"]>>]
    IN  Outcome(resolveImportPath(fsys, imp.from, filePath, projectRoot, {}))

\* The `calls` edges of one method or function (lines 186-195, 203-212).
CallEdges(sourceId, calls, currentFile, currentClass) ==
    Concat(MapSeq(calls,
                  LAMBDA call :
                      LET targetId == resolveCallTarget(call, currentFile, currentClass)
                      IN  IF targetId # {}
                          THEN <<[source |-> sourceId, relationship |-> "calls",
                                  target |-> CHOOSE t \in targetId : TRUE]>>
                          ELSE <<>>))

\* The edges of one class (lines 151-197): extends, implements, method calls.
ClassEdges(filePath, classDecl) ==
    LET classId == formatClassId(filePath, classDecl.name)
        ext == IF "extends" \in DOMAIN classDecl /\ classDecl.extends # <<>>
               THEN resolveClassName(classDecl.extends, filePath)
               ELSE {}
        impls == IF "implements" \in DOMAIN classDecl THEN classDecl.implements ELSE <<>>
    IN  (IF ext # {}
         THEN <<[source |-> classId, relationship |-> "extends",
                 target |-> CHOOSE t \in ext : TRUE]>>
         ELSE <<>>)
        \o Concat(MapSeq(impls,
                         LAMBDA impl :
                             LET interfaceId == resolveInterfaceName(impl, filePath)
                             IN  IF interfaceId # {}
                                 THEN <<[source |-> classId, relationship |-> "implements",
                                         target |-> CHOOSE t \in interfaceId : TRUE]>>
                                 ELSE <<>>))
        \o Concat(MapSeq(classDecl.methods,
                         LAMBDA m : CallEdges(formatMethodId(filePath, classDecl.name, m.name),
                                              m.calls, filePath, {classDecl.name})))

\* addFileEdges (lines 114-214): the edges and skipped-edge records one
\* parsed file adds.
addFileEdges(fsys, ns, parsedFile, projectRoot) ==
    LET Collect(outcomes) ==
            [edges |-> Concat(MapSeq(outcomes, LAMBDA o : o.edges))
                       \o Concat(MapSeq(parsedFile.classes,
                                        LAMBDA c : ClassEdges(parsedFile.filePath, c)))
                       \o Concat(MapSeq(parsedFile.functions,
                                        LAMBDA f : CallEdges(
                                            formatFunctionId(parsedFile.filePath, f.name),
                                            f.calls, parsedFile.filePath, {}))),
             skipped |-> Concat(MapSeq(outcomes, LAMBDA o : o.skipped))]
    IN  Collect(MapSeq(parsedFile.imports,
                       LAMBDA imp : ImportOutcome(fsys, ns, parsedFile.filePath, imp,
                                                  projectRoot)))

----
(* Graph diff: src/unnamed/part_009 (services/graph-diff.service.ts)        *)

\* The entity IDs of the diff inputs.
KeyOrder == << <<"A">>, <<"B">> >>

\* Object.keys(graph.nodes): the keys of the nodes object in the order in
\* which they were inserted, which the graph carries as `keys`.
ObjectKeys(g) == g.keys

\* detectNodeChanges without the comparison of endLine (lines 107-109).
detectNodeChanges_noEndLine(node1, node2) ==
    (IF Field(node1, "line") # Field(node2, "line") THEN <<"line">> ELSE <<>>)
    \o (IF Field(node1, "type") # Field(node2, "type") THEN <<"type">> ELSE <<>>)
    \o (IF Field(node1, "file") # Field(node2, "file") THEN <<"file">> ELSE <<>>)

\* detectNodeChanges (lines 100-120)
detectNodeChanges(node1, node2) ==
    (IF Field(node1, "line") # Field(node2, "line") THEN <<"line">> ELSE <<>>)
    \o (IF Field(node1, "endLine") # Field(node2, "endLine") THEN <<"endLine">> ELSE <<>>)
    \o (IF Field(node1, "type") # Field(node2, "type") THEN <<"type">> ELSE <<>>)
    \o (IF Field(node1, "file") # Field(node2, "file") THEN <<"file">> ELSE <<>>)

\* findModifiedNodes (lines 68-92)
findModifiedNodes(g1, g2, commonNodes) ==
    MapSeq(SelectSeq(commonNodes,
                     LAMBDA id : Len(detectNodeChanges(g1.nodes[id], g2.nodes[id])) > 0),
           LAMBDA id : [entityId |-> id, before |-> g1.nodes[id], after |-> g2.nodes[id],
                        changes |-> detectNodeChanges(g1.nodes[id], g2.nodes[id])])

\* edgeToString (lines 156-158): `${source}::${relationship}::${target}`
edgeToString(edge) == edge.source \o <<"::", edge.relationship, "::">> \o edge.target

\* compareEdges whose first key set misses the first edge of edges1.
compareEdges_dropsFirstKey(edges1, edges2) ==
    LET edges1Set == {edgeToString(e) : e \in Range(SubSeq(edges1, 2, Len(edges1)))}
        edges2Set == {edgeToString(e) : e \in Range(edges2)}
    IN  [addedEdges |-> SelectSeq(edges2, LAMBDA e : edgeToString(e) \notin edges1Set),
         removedEdges |-> SelectSeq(edges1, LAMBDA e : edgeToString(e) \notin edges2Set)]

\* compareEdges whose removedEdges filter looks the key up in edges1Set.
compareEdges_removedAgainstOwnSet(edges1, edges2) ==
    LET edges1Set == {edgeToString(e) : e \in Range(edges1)}
        edges2Set == {edgeToString(e) : e \in Range(edges2)}
    IN  [addedEdges |-> SelectSeq(edges2, LAMBDA e : edgeToString(e) \notin edges1Set),
         removedEdges |-> SelectSeq(edges1, LAMBDA e : edgeToString(e) \notin edges1Set)]

\* compareEdges (lines 128-149)
compareEdges(edges1, edges2) ==
    LET edges1Set == {edgeToString(e) : e \in Range(edges1)}
        edges2Set == {edgeToString(e) : e \in Range(edges2)}
    IN  [addedEdges |-> SelectSeq(edges2, LAMBDA e : edgeToString(e) \notin edges1Set),
         removedEdges |-> SelectSeq(edges1, LAMBDA e : edgeToString(e) \notin edges2Set)]

\* compareGraphs (lines 18-59)
compareGraphs(g1, g2) ==
    LET nodes1 == ObjectKeys(g1)
        nodes2 == ObjectKeys(g2)
        addedNodes == SelectSeq(nodes2, LAMBDA n : n \notin Range(nodes1))
        removedNodes == SelectSeq(nodes1, LAMBDA n : n \notin Range(nodes2))
        commonNodes == SelectSeq(nodes1, LAMBDA n : n \in Range(nodes2))
        modifiedNodes == findModifiedNodes(g1, g2, commonNodes)
        es == compareEdges(g1.edges, g2.edges)
    IN  [addedNodes |-> addedNodes,
         removedNodes |-> removedNodes,
         modifiedNodes |-> modifiedNodes,
         addedEdges |-> es.addedEdges,
         removedEdges |-> es.removedEdges,
         summary |-> [totalNodesAdded |-> Len(addedNodes),
                      totalNodesRemoved |-> Len(removedNodes),
                      totalNodesModified |-> Len(modifiedNodes),
                      totalEdgesAdded |-> Len(es.addedEdges),
                      totalEdgesRemoved |-> Len(es.removedEdges)]]

\* areGraphsIdentical (lines 180-190)
areGraphsIdentical(g1, g2) ==
    LET d == compareGraphs(g1, g2)
    IN  /\ d.summary.totalNodesAdded = 0
        /\ d.summary.totalNodesRemoved = 0
        /\ d.summary.totalNodesModified = 0
        /\ d.summary.totalEdgesAdded = 0
        /\ d.summary.totalEdgesRemoved = 0

----
(* Impact analysis: src/unnamed/part_010 (services/impact-analysis.service.ts) *)

NodeTypes == {"file", "class", "method", "function", "interface"}

RiskLevels == {"LOW", "MEDIUM", "HIGH", "CRITICAL"}

\* findEntitiesByFile (src/src/app.module.ts lines 77-88): the keys, in the
\* order of Object.entries, that are the file path or whose node is in the file.
findEntitiesByFile(g, filePath) ==
    SelectSeq(ObjectKeys(g),
              LAMBDA entityId : \/ entityId = filePath
                                \/ Field(g.nodes[entityId], "file") = {filePath})

\* The record pushed at lines 56-62.
AffectedEntity(dependent, entityId, changedFile) ==
    [entityId |-> dependent.entityId,
     node |-> dependent.node,
     reason |-> <<"Depends on ", entityId, " in ", changedFile>>,
     depth |-> dependent.depth,
     changedBy |-> changedFile]

\* The largest depth of a list of records, 0 for the empty list (lines 36, 75-77).
\* maxDepth as the depth of the record pushed last.
MaxDepthOf_lastRecord(records) ==
    IF records = <<>> THEN 0 ELSE records[Len(records)].depth

MaxDepthOf(records) ==
    IF records = <<>> THEN 0
    ELSE CHOOSE d \in {r.depth : r \in Range(records)} :
            \A r \in Range(records) : r.depth <= d

\* calculateRiskLevel with the thresholds taken inclusively (<= for <).
calculateRiskLevel_inclusive(metrics) ==
    LET fileScore == metrics.affectedFilesCount * 10
        entityScore == metrics.affectedEntitiesCount * 2
        depthScore == metrics.maxDepth * 5
        totalScore == fileScore + entityScore + depthScore
    IN  IF totalScore <= 20 THEN "LOW"
        ELSE IF totalScore <= 50 THEN "MEDIUM"
        ELSE IF totalScore <= 100 THEN "HIGH"
        ELSE "CRITICAL"

\* calculateRiskLevel (lines 107-125)
calculateRiskLevel(metrics) ==
    LET fileScore == metrics.affectedFilesCount * 10
        entityScore == metrics.affectedEntitiesCount * 2
        depthScore == metrics.maxDepth * 5
        totalScore == fileScore + entityScore + depthScore
    IN  IF totalScore < 20 THEN "LOW"
        ELSE IF totalScore < 50 THEN "MEDIUM"
        ELSE IF totalScore < 100 THEN "HIGH"
        ELSE "CRITICAL"

\* createEmptyReport (lines 131-150)
createEmptyReport ==
    [changedFiles |-> <<>>,
     affectedEntities |-> <<>>,
     metrics |-> [changedFilesCount |-> 0,
                  affectedEntitiesCount |-> 0,
                  affectedFilesCount |-> 0,
                  affectedByType |-> [t \in NodeTypes |-> 0],
                  maxDepth |-> 0],
     riskLevel |-> "LOW"]

\* The records of analyzeImpact with the dependents taken non-transitively.
AffectedEntities_directOnly(g, files) ==
    Concat(MapSeq(files, LAMBDA changedFile :
        Concat(MapSeq(findEntitiesByFile(g, changedFile), LAMBDA entityId :
            MapSeq(getDependents(g, entityId, FALSE),
                   LAMBDA dependent : AffectedEntity(dependent, entityId, changedFile))))))

\* The records pushed by the three nested loops of lines 39-80.
AffectedEntities(g, files) ==
    Concat(MapSeq(files, LAMBDA changedFile :
        Concat(MapSeq(findEntitiesByFile(g, changedFile), LAMBDA entityId :
            MapSeq(getDependents(g, entityId, TRUE),
                   LAMBDA dependent : AffectedEntity(dependent, entityId, changedFile))))))

\* analyzeImpact (lines 21-100)
analyzeImpact(g, files) ==
    IF Len(files) = 0 THEN createEmptyReport
    ELSE LET affectedEntities == AffectedEntities(g, files)
             affectedFiles == UNION {Field(a.node, "file") : a \in Range(affectedEntities)}
             affectedByType ==
                 [t \in NodeTypes |->
                     Len(SelectSeq(affectedEntities, LAMBDA a : a.node.type = t))]
             metrics == [changedFilesCount |-> Len(files),
                         affectedEntitiesCount |-> Len(affectedEntities),
                         affectedFilesCount |-> Cardinality(affectedFiles),
                         affectedByType |-> affectedByType,
                         maxDepth |-> MaxDepthOf(affectedEntities)]
         IN  [changedFiles |-> files,
              affectedEntities |-> affectedEntities,
              metrics |-> metrics,
              riskLevel |-> calculateRiskLevel(metrics)]

\* thresholdLevels (lines 159-164)
thresholdLevels ==
    [l \in RiskLevels |->
        CASE l = "LOW" -> 1 [] l = "MEDIUM" -> 2 [] l = "HIGH" -> 3 [] l = "CRITICAL" -> 4]

\* filterByThreshold with the report dropped also at the threshold (<= for <).
filterByThreshold_strict(rep, level) ==
    IF thresholdLevels[rep.riskLevel] <= thresholdLevels[level]
    THEN createEmptyReport
    ELSE rep

\* filterByThreshold (lines 158-175)
filterByThreshold(rep, level) ==
    IF thresholdLevels[rep.riskLevel] < thresholdLevels[level]
    THEN createEmptyReport
    ELSE rep

----
(* Values of the variables of the operations that are not running *)

IdleTraversal ==
    /\ graph = [nodes |-> <<>>, edges |-> <<>>]
    /\ startEntityId = "A"
    /\ direction = "forward"
    /\ transitive = FALSE
    /\ bfs = BFSInit("A")
    /\ bfsOut = "idle"
    /\ dfs = DFSInit
    /\ dfsOut = "idle"
    /\ queryOut = [threw |-> "idle"]

IdleBuild ==
    /\ parsedFiles = <<>>
    /\ disk = {}
    /\ projectTsConfig = {}
    /\ nodes = <<>>
    /\ edges = <<>>
    /\ skippedEdges = <<>>
    /\ fileIndex = 1
    /\ buildOut = [state |-> "idle"]

IdleDiff ==
    /\ graph1 = [nodes |-> <<>>, keys |-> <<>>, edges |-> <<>>]
    /\ graph2 = [nodes |-> <<>>, keys |-> <<>>, edges |-> <<>>]
    /\ diff = [state |-> "idle"]
    /\ diffRev = [state |-> "idle"]
    /\ identical = "idle"

IdleRisk ==
    /\ metricsIn = [affectedFilesCount |-> 0, affectedEntitiesCount |-> 0, maxDepth |-> 0]
    /\ riskOut = "idle"

IdleAnalysis ==
    /\ impactGraph = [nodes |-> <<>>, keys |-> <<>>, edges |-> <<>>]
    /\ changedFiles = <<>>
    /\ report = [state |-> "idle"]
    /\ threshold = "LOW"
    /\ filtered = [state |-> "idle"]

IdleImpact ==
    /\ IdleRisk
    /\ IdleAnalysis

IdleResolve ==
    /\ resolveFrom = <<>>
    /\ resolveConfig = {}
    /\ resolverDisk = [exists |-> {}, throws |-> {}]
    /\ matchOut = <<>>
    /\ resolved = {}

IdleEntityId ==
    /\ idParts = [kind |-> "idle", parts |-> <<>>]
    /\ idText = <<>>
    /\ parsedId = [state |-> "idle"]

IdleQuery ==
    /\ related = [state |-> "idle"]

IdleCycles ==
    /\ cycleGraph = [nodes |-> <<>>, keys |-> <<>>, edges |-> <<>>]
    /\ cyclesOut = [state |-> "idle"]

\* The project roots whose tsconfig.json is loaded.
ProjectRoots == {"/p", "/q"}

IdleTsConfig ==
    /\ tsconfigCache = <<>>
    /\ tsconfigFiles = [root \in ProjectRoots |-> [exists |-> FALSE]]
    /\ nextObject = 1
    /\ loadOut = [state |-> "idle"]
    /\ returnedSinceClear = [root \in ProjectRoots |-> {}]

IdleOthers ==
    /\ IdleEntityId
    /\ IdleQuery
    /\ IdleCycles
    /\ IdleTsConfig

----
(* Traversal: the three operations run one after the other on one input    *)

Init ==
    /\ pc = "bfs_start"
    /\ graph \in {[nodes |-> ns, edges |-> es] :
                    ns \in NodeMaps, es \in SeqsUpTo(TraversalEdge, MaxEdges)}
    /\ startEntityId \in Entities
    /\ direction \in {"forward", "reverse"}
    /\ transitive \in BOOLEAN
    /\ bfs = BFSInit(startEntityId)
    /\ bfsOut = "running"
    /\ dfs = DFSInit
    /\ dfsOut = "running"
    /\ queryOut = [threw |-> "idle"]
    /\ IdleBuild
    /\ IdleDiff
    /\ IdleImpact
    /\ IdleResolve
    /\ IdleOthers

\* traverseBFS lines 25-34: validation of the start entity.
BFSStart ==
    /\ pc = "bfs_start"
    /\ IF NotFound(graph, startEntityId)
       THEN bfsOut' = "threw" /\ pc' = "dfs_start"
       ELSE bfsOut' = bfsOut /\ pc' = "bfs_loop"
    /\ UNCHANGED <<graph, startEntityId, direction, transitive, bfs, dfs, dfsOut, queryOut>>
    /\ UNCHANGED <<bvars, dvars, ivars, rvars, ovars>>

\* traverseBFS lines 36-72: one iteration of the while loop.
BFSStep ==
    /\ pc = "bfs_loop"
    /\ bfs.queue # <<>>
    /\ bfs' = BFSIter(graph, startEntityId, direction, transitive, bfs)
    /\ UNCHANGED <<pc, graph, startEntityId, direction, transitive, bfsOut, dfs, dfsOut, queryOut>>
    /\ UNCHANGED <<bvars, dvars, ivars, rvars, ovars>>

\* traverseBFS line 74: the queue is exhausted, the results are returned.
BFSReturn ==
    /\ pc = "bfs_loop"
    /\ bfs.queue = <<>>
    /\ bfsOut' = "returned"
    /\ pc' = "dfs_start"
    /\ UNCHANGED <<graph, startEntityId, direction, transitive, bfs, dfs, dfsOut, queryOut>>
    /\ UNCHANGED <<bvars, dvars, ivars, rvars, ovars>>

\* traverseDFS lines 91-97 and 135: validation, then the call dfs(start, 0, [start]).
DFSStart ==
    /\ pc = "dfs_start"
    /\ IF NotFound(graph, startEntityId)
       THEN dfsOut' = "threw" /\ pc' = "query" /\ dfs' = dfs
       ELSE /\ dfsOut' = dfsOut
            /\ pc' = "dfs_loop"
            /\ dfs' = DFSCall(graph, startEntityId, direction, transitive, DFSInit,
                              startEntityId, 0, <<startEntityId>>)
    /\ UNCHANGED <<graph, startEntityId, direction, transitive, bfs, bfsOut, queryOut>>
    /\ UNCHANGED <<bvars, dvars, ivars, rvars, ovars>>

\* traverseDFS lines 128-132: one step of the innermost call of dfs.
DFSStep ==
    /\ pc = "dfs_loop"
    /\ dfs.stack # <<>>
    /\ dfs' = DFSIter(graph, startEntityId, direction, transitive, dfs)
    /\ UNCHANGED <<pc, graph, startEntityId, direction, transitive, bfs, bfsOut, dfsOut, queryOut>>
    /\ UNCHANGED <<bvars, dvars, ivars, rvars, ovars>>

\* traverseDFS line 137: the outermost call has returned.
DFSReturn ==
    /\ pc = "dfs_loop"
    /\ dfs.stack = <<>>
    /\ dfsOut' = "returned"
    /\ pc' = "query"
    /\ UNCHANGED <<graph, startEntityId, direction, transitive, bfs, bfsOut, dfs, queryOut>>
    /\ UNCHANGED <<bvars, dvars, ivars, rvars, ovars>>

\* GraphQueryService.query on the same graph and root.
Query ==
    /\ pc = "query"
    /\ queryOut' = query(graph, startEntityId,
                         IF direction = "forward" THEN "dependencies" ELSE "dependents",
                         transitive)
    /\ pc' = "done"
    /\ UNCHANGED <<graph, startEntityId, direction, transitive, bfs, bfsOut, dfs, dfsOut>>
    /\ UNCHANGED <<bvars, dvars, ivars, rvars, ovars>>

Next ==
    \/ BFSStart
    \/ BFSStep
    \/ BFSReturn
    \/ DFSStart
    \/ DFSStep
    \/ DFSReturn
    \/ Query

Spec == Init /\ [][Next]_vars

\* Inputs of the termination check: every entity has a node and the start
\* entity is "A" (the entity names are interchangeable).
InitFair ==
    /\ pc = "bfs_start"
    /\ graph \in {[nodes |-> [e \in Entities |-> [type |-> "file"]], edges |-> es] :
                    es \in SeqsUpTo(TraversalEdge, MaxEdges)}
    /\ startEntityId = "A"
    /\ direction \in {"forward", "reverse"}
    /\ transitive \in BOOLEAN
    /\ bfs = BFSInit(startEntityId)
    /\ bfsOut = "running"
    /\ dfs = DFSInit
    /\ dfsOut = "running"
    /\ queryOut = [threw |-> "idle"]
    /\ IdleBuild
    /\ IdleDiff
    /\ IdleImpact
    /\ IdleResolve
    /\ IdleOthers

\* The steps of traverseBFS followed by those of traverseDFS.
NextTraversal ==
    \/ BFSStart
    \/ BFSStep
    \/ BFSReturn
    \/ DFSStart
    \/ DFSStep
    \/ DFSReturn

\* The traversal code is sequential: a step that can be taken is taken.
FairSpec == InitFair /\ [][NextTraversal]_vars /\ WF_vars(NextTraversal)

----
(* Graph construction: the inputs and the steps of buildGraph               *)

\* Bound on the number of imports of a parsed file.
MaxImports == 2

ProjectRoot == <<"/", "project">>

FileA == <<"src", "/", "a", ".ts">>
FileB == <<"src", "/", "b", ".ts">>

\* The import declarations the parsed files draw from.
ImportUniverse ==
    { [from |-> <<".", "/", "b">>, isTypeOnly |-> FALSE],
      [from |-> <<".", "/", "b">>, isTypeOnly |-> TRUE],
      [from |-> <<".", "/", "c">>, isTypeOnly |-> FALSE],
      [from |-> <<"lodash">>, isTypeOnly |-> FALSE],
      [from |-> <<"@", "/", "b">>, isTypeOnly |-> FALSE] }

\* The alias configuration of the project: `@/*` mapped to `./*` under
\* baseUrl `./src`, so that `@/b` names src/b.
ProjectAliases ==
    [baseUrl |-> {<<".", "/", "src">>},
     paths |-> << [pattern |-> <<"@", "/", "*">>,
                   mappedPaths |-> << <<".", "/", "*">> >>] >>]

\* What loadTsConfig(projectRoot) yields: null, or the alias configuration.
ProjectTsConfigs == {{}, {ProjectAliases}}

\* A class whose calls all name declarations of its own file.
ClassUser ==
    [name |-> <<"User">>, line |-> 3, endLine |-> 20,
     extends |-> <<"Base">>, implements |-> <<<<"IUser">>>>,
     methods |-> << [name |-> <<"save">>, line |-> 4, endLine |-> 9,
                     calls |-> << <<"this", ".", "validate">>, <<"helper">>,
                                  <<"console", ".", "log">> >>],
                    [name |-> <<"validate">>, line |-> 10, endLine |-> 19,
                     calls |-> <<>>] >>]

FunctionHelper == [name |-> <<"helper">>, line |-> 22, endLine |-> 30,
                   calls |-> << <<"helper">> >>]

\* A function that calls a function its file does not declare.
FunctionLoad == [name |-> <<"load">>, line |-> 32, endLine |-> 40,
                 calls |-> << <<"fetch">> >>]

\* A class whose method calls a method the class does not declare, and a
\* method of one of its members.
ClassRepo ==
    [name |-> <<"Repo">>, line |-> 42, endLine |-> 50,
     methods |-> << [name |-> <<"find">>, line |-> 43, endLine |-> 49,
                     calls |-> << <<"this", ".", "query">>,
                                  <<"this", ".", "db", ".", "open">> >>] >>]

\* A function whose call begins with `this.`.
FunctionPoll == [name |-> <<"poll">>, line |-> 62, endLine |-> 70,
                 calls |-> << <<"this", ".", "retry">> >>]

\* A class with a static and an instance method of one name (both are in
\* classDeclaration.getMethods(), parser.service.ts line 84).
ClassCache ==
    [name |-> <<"Cache">>, line |-> 52, endLine |-> 60,
     methods |-> << [name |-> <<"create">>, line |-> 53, endLine |-> 55,
                     calls |-> <<>>],
                    [name |-> <<"create">>, line |-> 56, endLine |-> 59,
                     calls |-> <<>>] >>]

\* The declarations (classes, functions) the parsed files draw from.
Declarations ==
    { [classes |-> <<ClassUser>>, functions |-> <<FunctionHelper>>],
      [classes |-> <<>>, functions |-> <<FunctionHelper, FunctionLoad>>],
      [classes |-> <<ClassRepo, ClassCache>>, functions |-> <<FunctionPoll>>] }

\* The parsed files of one path: a file with one of the given import lists
\* and no declarations, or with declarations and no imports.
ParsedFileUniverse(p, importLists) ==
    { [filePath |-> p, classes |-> <<>>, functions |-> <<>>, imports |-> imps] :
        imps \in importLists }
    \cup
    { [filePath |-> p, classes |-> d.classes, functions |-> d.functions,
       imports |-> <<>>] : d \in Declarations }

\* The import lists of a file: up to MaxImports imports.
ImportLists == SeqsUpTo(ImportUniverse, MaxImports)

\* The import lists of a second file: at most one import.
ShortImportLists == {<<>>} \cup {<<imp>> : imp \in ImportUniverse}

\* The parsedFiles arguments: no file, one file, or src/a.ts followed by
\* src/b.ts.
ParsedFileLists ==
    {<<>>}
    \cup {<<f>> : f \in ParsedFileUniverse(FileA, ImportLists)
                        \cup ParsedFileUniverse(FileB, ImportLists)}
    \cup {<<f, g>> : f \in ParsedFileUniverse(FileA, ImportLists),
                     g \in ParsedFileUniverse(FileB, ShortImportLists)}

DiskFileB == ProjectRoot \o <<"/">> \o FileB
DiskIndexB == ProjectRoot \o <<"/", "src", "/", "b", "/", "index", ".ts">>
DiskFileC == ProjectRoot \o <<"/", "src", "/", "c", ".ts">>

\* The file system: the paths that exist, and the paths whose probe throws
\* (src/c.ts may exist and be unreadable).
FileSystems ==
    { [exists |-> E, throws |-> {}] : E \in SUBSET {DiskFileB, DiskIndexB, DiskFileC} }
    \cup
    { [exists |-> E \cup {DiskFileC}, throws |-> {DiskFileC}] :
        E \in SUBSET {DiskFileB, DiskIndexB} }

InitBuild ==
    /\ pc = "nodes"
    /\ parsedFiles \in ParsedFileLists
    /\ disk \in FileSystems
    /\ projectTsConfig \in ProjectTsConfigs
    /\ nodes = <<>>
    /\ edges = <<>>
    /\ skippedEdges = <<>>
    /\ fileIndex = 1
    /\ buildOut = [state |-> "running"]
    /\ IdleTraversal
    /\ IdleDiff
    /\ IdleImpact
    /\ IdleResolve
    /\ IdleOthers

\* buildGraph lines 36-38: one iteration of the first pass.
AddFileNodes ==
    /\ pc = "nodes"
    /\ fileIndex <= Len(parsedFiles)
    /\ nodes' = addFileNodes(parsedFiles[fileIndex], nodes)
    /\ fileIndex' = fileIndex + 1
    /\ UNCHANGED <<pc, parsedFiles, disk, projectTsConfig, edges, skippedEdges, buildOut>>
    /\ UNCHANGED <<tvars, dvars, ivars, rvars, ovars>>

\* buildGraph lines 38-41: the first pass is over, the second begins.
StartEdgePass ==
    /\ pc = "nodes"
    /\ fileIndex > Len(parsedFiles)
    /\ pc' = "edges"
    /\ fileIndex' = 1
    /\ UNCHANGED <<parsedFiles, disk, projectTsConfig, nodes, edges, skippedEdges, buildOut>>
    /\ UNCHANGED <<tvars, dvars, ivars, rvars, ovars>>

\* buildGraph lines 41-43: one iteration of the second pass.
AddFileEdges ==
    /\ pc = "edges"
    /\ fileIndex <= Len(parsedFiles)
    /\ LET added == addFileEdges(disk, nodes, parsedFiles[fileIndex], ProjectRoot)
       IN  /\ edges' = edges \o added.edges
           /\ skippedEdges' = skippedEdges \o added.skipped
    /\ fileIndex' = fileIndex + 1
    /\ UNCHANGED <<pc, parsedFiles, disk, projectTsConfig, nodes, buildOut>>
    /\ UNCHANGED <<tvars, dvars, ivars, rvars, ovars>>

\* buildGraph lines 45-63: the warning about skipped edges, and the result.
ReportAndReturn ==
    /\ pc = "edges"
    /\ fileIndex > Len(parsedFiles)
    /\ buildOut' = [state |-> "returned",
                    warned |-> (Len(skippedEdges) > 0),
                    warnedTargets |-> {e.target : e \in Range(skippedEdges)},
                    graph |-> [nodes |-> nodes, edges |-> edges]]
    /\ pc' = "built"
    /\ UNCHANGED <<parsedFiles, disk, projectTsConfig, nodes, edges, skippedEdges, fileIndex>>
    /\ UNCHANGED <<tvars, dvars, ivars, rvars, ovars>>

NextBuild ==
    \/ AddFileNodes
    \/ StartEdgePass
    \/ AddFileEdges
    \/ ReportAndReturn

SpecBuild == InitBuild /\ [][NextBuild]_vars

----
(* Graph diff: the inputs and the call of compareGraphs                     *)

\* Bound on the number of edges of each compared graph.
MaxDiffEdges == 2

\* The node records of the compared graphs: a file node, a class, the same
\* class with another endLine, and a function of another file.
DiffNodes ==
    { [type |-> "file"],
      [type |-> "class", file |-> "src/a.ts", line |-> 1, endLine |-> 5],
      [type |-> "class", file |-> "src/a.ts", line |-> 1, endLine |-> 9],
      [type |-> "function", file |-> "src/b.ts", line |-> 2, endLine |-> 5] }

\* The node maps over the keys of KeyOrder.
DiffNodeMaps == UNION {[K -> DiffNodes] : K \in SUBSET Range(KeyOrder)}

\* The orders in which the keys of a node map may have been inserted.
InsertionOrders(ns) ==
    {ks \in SeqsUpTo(DOMAIN ns, Len(KeyOrder)) :
        Len(ks) = Cardinality(DOMAIN ns) /\ Range(ks) = DOMAIN ns}

\* The edges of the compared graphs.
DiffEdges ==
    { [source |-> <<"A">>, relationship |-> "imports", target |-> <<"B">>],
      [source |-> <<"B">>, relationship |-> "calls", target |-> <<"A">>] }

DiffGraphs ==
    UNION {{[nodes |-> ns, keys |-> ks, edges |-> es] :
               ks \in InsertionOrders(ns), es \in SeqsUpTo(DiffEdges, MaxDiffEdges)} :
           ns \in DiffNodeMaps}

InitDiff ==
    /\ pc = "compare"
    /\ graph1 \in DiffGraphs
    /\ graph2 \in DiffGraphs
    /\ diff = [state |-> "running"]
    /\ diffRev = [state |-> "running"]
    /\ identical = "running"
    /\ IdleTraversal
    /\ IdleBuild
    /\ IdleImpact
    /\ IdleResolve
    /\ IdleOthers

\* GraphDiffService.compareGraphs(graph1, graph2)
CompareGraphs ==
    /\ pc = "compare"
    /\ diff' = compareGraphs(graph1, graph2)
    /\ pc' = "compared"
    /\ UNCHANGED <<graph1, graph2, diffRev, identical>>
    /\ UNCHANGED <<tvars, bvars, ivars, rvars, ovars>>

\* GraphDiffService.compareGraphs(graph2, graph1): the same call with the
\* arguments exchanged.
CompareGraphsSwapped ==
    /\ pc = "compared"
    /\ diffRev' = compareGraphs(graph2, graph1)
    /\ pc' = "swapped"
    /\ UNCHANGED <<graph1, graph2, diff, identical>>
    /\ UNCHANGED <<tvars, bvars, ivars, rvars, ovars>>

\* GraphDiffService.areGraphsIdentical(graph1, graph2)
AreGraphsIdentical ==
    /\ pc = "swapped"
    /\ identical' = areGraphsIdentical(graph1, graph2)
    /\ pc' = "checked"
    /\ UNCHANGED <<graph1, graph2, diff, diffRev>>
    /\ UNCHANGED <<tvars, bvars, ivars, rvars, ovars>>

NextDiff ==
    \/ CompareGraphs
    \/ CompareGraphsSwapped
    \/ AreGraphsIdentical

SpecDiff == InitDiff /\ [][NextDiff]_vars

----
(* Impact analysis: the inputs and the calls of the service                 *)

\* Bound on the number of edges of an analysed graph.
MaxImpactEdges == 3

\* Bound on the length of changedFiles.
MaxChangedFiles == 2

\* Bound on the counters of the metrics handed to calculateRiskLevel.
MaxAffected == 8

\* The nodes of the analysed graphs: two files, a class of each, and a
\* function of a third file.
ImpactNodes ==
    [k \in {"src/a.ts", "src/a.ts::X", "src/b.ts", "src/b.ts::Y", "src/c.ts::f"} |->
        CASE k = "src/a.ts" -> [type |-> "file"]
          [] k = "src/a.ts::X" ->
                [type |-> "class", file |-> "src/a.ts", line |-> 1, endLine |-> 9]
          [] k = "src/b.ts" -> [type |-> "file"]
          [] k = "src/b.ts::Y" ->
                [type |-> "class", file |-> "src/b.ts", line |-> 1, endLine |-> 9]
          [] k = "src/c.ts::f" ->
                [type |-> "function", file |-> "src/c.ts", line |-> 3, endLine |-> 5]]

\* The order in which the keys of ImpactNodes were inserted.
ImpactKeys == <<"src/a.ts", "src/a.ts::X", "src/b.ts", "src/b.ts::Y", "src/c.ts::f">>

\* The edges of the analysed graphs: a chain f -> Y -> a.ts -> X, an edge
\* X -> f that closes a cycle, and the import of src/a.ts by src/b.ts.
ImpactEdges ==
    { [source |-> "src/a.ts", relationship |-> "calls", target |-> "src/a.ts::X"],
      [source |-> "src/b.ts::Y", relationship |-> "imports", target |-> "src/a.ts"],
      [source |-> "src/c.ts::f", relationship |-> "calls", target |-> "src/b.ts::Y"],
      [source |-> "src/a.ts::X", relationship |-> "calls", target |-> "src/c.ts::f"],
      [source |-> "src/b.ts", relationship |-> "imports", target |-> "src/a.ts"] }

ImpactGraphs ==
    {[nodes |-> ImpactNodes, keys |-> ImpactKeys, edges |-> es] :
        es \in SeqsUpTo(ImpactEdges, MaxImpactEdges)}

\* The paths that may be listed as changed: two files of the graph and one
\* that the graph does not know.
ChangedFileUniverse == {"src/a.ts", "src/b.ts", "src/d.ts"}

\* The metrics handed to calculateRiskLevel: those analyzeImpact can compute
\* (no more files or levels than records, a depth of at least 1 once there
\* is a record).
MetricsUniverse ==
    {m \in [affectedFilesCount : 0..MaxAffected,
            affectedEntitiesCount : 0..MaxAffected,
            maxDepth : 0..MaxAffected] :
        /\ m.affectedFilesCount <= m.affectedEntitiesCount
        /\ m.maxDepth <= m.affectedEntitiesCount
        /\ (m.affectedEntitiesCount > 0) => (m.maxDepth > 0)}

InitAnalysis ==
    /\ pc = "analyze"
    /\ impactGraph \in ImpactGraphs
    /\ changedFiles \in SeqsUpTo(ChangedFileUniverse, MaxChangedFiles)
    /\ report = [state |-> "running"]
    /\ threshold = "LOW"
    /\ filtered = [state |-> "running"]
    /\ IdleRisk

InitRisk ==
    /\ pc = "risk"
    /\ metricsIn \in MetricsUniverse
    /\ riskOut = "running"
    /\ IdleAnalysis

InitImpact ==
    /\ InitAnalysis \/ InitRisk
    /\ IdleTraversal
    /\ IdleBuild
    /\ IdleDiff
    /\ IdleResolve
    /\ IdleOthers

\* ImpactAnalysisService.analyzeImpact(graph, changedFiles)
AnalyzeImpact ==
    /\ pc = "analyze"
    /\ report' = analyzeImpact(impactGraph, changedFiles)
    /\ pc' = "analyzed"
    /\ UNCHANGED <<impactGraph, changedFiles, threshold, filtered, metricsIn, riskOut>>
    /\ UNCHANGED <<tvars, bvars, dvars, rvars, ovars>>

\* ImpactAnalysisService.filterByThreshold(report, threshold)
FilterByThreshold ==
    /\ pc = "analyzed"
    /\ \E level \in RiskLevels :
          /\ threshold' = level
          /\ filtered' = filterByThreshold(report, level)
    /\ pc' = "filtered"
    /\ UNCHANGED <<impactGraph, changedFiles, report, metricsIn, riskOut>>
    /\ UNCHANGED <<tvars, bvars, dvars, rvars, ovars>>

\* ImpactAnalysisService.calculateRiskLevel(metrics)
CalculateRiskLevel ==
    /\ pc = "risk"
    /\ riskOut' = calculateRiskLevel(metricsIn)
    /\ pc' = "risk_done"
    /\ UNCHANGED <<impactGraph, changedFiles, report, threshold, filtered, metricsIn>>
    /\ UNCHANGED <<tvars, bvars, dvars, rvars, ovars>>

NextImpact ==
    \/ AnalyzeImpact
    \/ FilterByThreshold
    \/ CalculateRiskLevel

SpecImpact == InitImpact /\ [][NextImpact]_vars

----
(* Import resolution: the inputs and the calls of matchPathAlias and        *)
(* resolveImportPath, for an import of src/a.ts                             *)

\* Bound on the number of patterns of an alias configuration.
MaxPatterns == 2

\* The import specifiers: an alias, an external package, a relative path.
AliasSpecifier == <<"@", "api", "/", "users">>
ExternalSpecifier == <<"lodash">>
RelativeSpecifier == <<".", "/", "b">>

\* The entries a `paths` object draws from: `@api/*` with one and with two
\* templates, the catch-all `*`, `*users` (as specific as `@api/*`), and
\* the exact pattern `@api/users`.
PathsEntries ==
    { [pattern |-> <<"@", "api", "/", "*">>,
       mappedPaths |-> << <<"core", "/", "api", "/", "*">> >>],
      [pattern |-> <<"@", "api", "/", "*">>,
       mappedPaths |-> << <<"core", "/", "api", "/", "*">>,
                          <<"shared", "/", "api", "/", "*">> >>],
      [pattern |-> <<"*">>,
       mappedPaths |-> << <<"*">> >>],
      [pattern |-> <<"*", "users">>,
       mappedPaths |-> << <<"legacy", "/", "users">> >>],
      [pattern |-> <<"@", "api", "/", "users">>,
       mappedPaths |-> << <<"exact", "/", "users">> >>] }

\* The `paths` objects: up to MaxPatterns entries, no pattern twice.
PathsObjects ==
    {ps \in SeqsUpTo(PathsEntries, MaxPatterns) :
        \A i, j \in 1..Len(ps) : ps[i].pattern = ps[j].pattern => i = j}

\* The tsConfig arguments: null, or a configuration with or without baseUrl.
TsConfigs ==
    {{}} \cup {{[baseUrl |-> b, paths |-> ps]} :
                 b \in {{}, {<<".", "/", "src">>}}, ps \in PathsObjects}

SrcDir == ProjectRoot \o <<"/", "src">>

\* The paths an alias import may lead to.
AliasDiskPaths ==
    { SrcDir \o <<"/", "core", "/", "api", "/", "users", ".ts">>,
      SrcDir \o <<"/", "core", "/", "api", "/", "users">>,
      SrcDir \o <<"/", "shared", "/", "api", "/", "users", ".ts">>,
      SrcDir \o <<"/", "@", "api", "/", "users", ".ts">>,
      SrcDir \o <<"/", "legacy", "/", "users", ".ts">>,
      SrcDir \o <<"/", "exact", "/", "users", ".ts">>,
      ProjectRoot \o <<"/", "core", "/", "api", "/", "users", ".ts">> }

\* The paths the relative import ./b of src/a.ts may lead to.
RelativeDiskPaths ==
    { SrcDir \o <<"/", "b">>,
      SrcDir \o <<"/", "b", ".ts">>,
      SrcDir \o <<"/", "b", ".tsx">>,
      SrcDir \o <<"/", "b", "/", "index", ".ts">>,
      SrcDir \o <<"/", "b", "/", "index", ".tsx">> }

\* The file systems of a relative import; the probe of src/b.ts may throw.
RelativeFileSystems ==
    {[exists |-> E, throws |-> T] :
        E \in SUBSET RelativeDiskPaths, T \in {{}, {SrcDir \o <<"/", "b", ".ts">>}}}

\* The file systems of an alias or external import.
AliasFileSystems == {[exists |-> E, throws |-> {}] : E \in SUBSET AliasDiskPaths}

InitResolve ==
    /\ resolveConfig \in TsConfigs
    /\ \/ resolveFrom = RelativeSpecifier /\ resolverDisk \in RelativeFileSystems
       \/ resolveFrom \in {AliasSpecifier, ExternalSpecifier}
            /\ resolverDisk \in AliasFileSystems
    /\ pc = IF resolveConfig = {} THEN "resolve" ELSE "match"
    /\ matchOut = <<>>
    /\ resolved = {}
    /\ IdleTraversal
    /\ IdleBuild
    /\ IdleDiff
    /\ IdleImpact
    /\ IdleOthers

\* matchPathAlias(importFrom, tsConfig, projectRoot)
MatchPathAlias ==
    /\ pc = "match"
    /\ matchOut' = matchPathAlias(resolveFrom, CHOOSE c \in resolveConfig : TRUE, ProjectRoot)
    /\ pc' = "resolve"
    /\ UNCHANGED <<resolveFrom, resolveConfig, resolverDisk, resolved>>
    /\ UNCHANGED <<tvars, bvars, dvars, ivars, ovars>>

\* resolveImportPath(importFrom, 'src/a.ts', projectRoot, tsConfig)
ResolveImportPath ==
    /\ pc = "resolve"
    /\ resolved' = resolveImportPath(resolverDisk, resolveFrom, FileA, ProjectRoot, resolveConfig)
    /\ pc' = "resolved"
    /\ UNCHANGED <<resolveFrom, resolveConfig, resolverDisk, matchOut>>
    /\ UNCHANGED <<tvars, bvars, dvars, ivars, ovars>>

NextResolve ==
    \/ MatchPathAlias
    \/ ResolveImportPath

SpecResolve == InitResolve /\ [][NextResolve]_vars

----
(* Entity IDs: the calls of the format functions and of parseEntityId       *)

\* Bound on the length of an entity ID given to parseEntityId as it is.
MaxIdLen == 6

\* Bound on the length of a component given to a format function.
MaxPartLen == 2

\* The characters of the IDs and components: a letter and the colon.
IdChars == {"a", ":"}

\* The entity IDs parsed as they are.
RawIds == SeqsUpTo(IdChars, MaxIdLen)

\* The components (file path, class or function name, method name).
IdComponents == SeqsUpTo(IdChars, MaxPartLen)

\* The calls of the format functions: the function and its arguments.
FormatCalls ==
    { [kind |-> "file", parts |-> <<p>>] : p \in IdComponents }
    \cup { [kind |-> k, parts |-> <<p, c>>] :
              k \in {"class", "function", "interface"},
              p \in IdComponents, c \in IdComponents }
    \cup { [kind |-> "method", parts |-> <<p, c, m>>] :
              p \in IdComponents, c \in IdComponents, m \in IdComponents }

InitEntityId ==
    /\ \/ /\ pc = "parse"
          /\ idParts = [kind |-> "raw", parts |-> <<>>]
          /\ idText \in RawIds
       \/ /\ pc = "format"
          /\ idParts \in FormatCalls
          /\ idText = <<>>
    /\ parsedId = [state |-> "idle"]
    /\ IdleQuery
    /\ IdleCycles
    /\ IdleTsConfig
    /\ IdleTraversal
    /\ IdleBuild
    /\ IdleDiff
    /\ IdleImpact
    /\ IdleResolve

FormatFileId ==
    /\ pc = "format"
    /\ idParts.kind = "file"
    /\ idText' = formatFileId(idParts.parts[1])
    /\ pc' = "parse"
    /\ UNCHANGED <<idParts, parsedId>>
    /\ UNCHANGED <<tvars, bvars, dvars, ivars, rvars, qvars, cvars, lvars>>

FormatClassId ==
    /\ pc = "format"
    /\ idParts.kind = "class"
    /\ idText' = formatClassId(idParts.parts[1], idParts.parts[2])
    /\ pc' = "parse"
    /\ UNCHANGED <<idParts, parsedId>>
    /\ UNCHANGED <<tvars, bvars, dvars, ivars, rvars, qvars, cvars, lvars>>

FormatFunctionId ==
    /\ pc = "format"
    /\ idParts.kind = "function"
    /\ idText' = formatFunctionId(idParts.parts[1], idParts.parts[2])
    /\ pc' = "parse"
    /\ UNCHANGED <<idParts, parsedId>>
    /\ UNCHANGED <<tvars, bvars, dvars, ivars, rvars, qvars, cvars, lvars>>

FormatInterfaceId ==
    /\ pc = "format"
    /\ idParts.kind = "interface"
    /\ idText' = formatInterfaceId(idParts.parts[1], idParts.parts[2])
    /\ pc' = "parse"
    /\ UNCHANGED <<idParts, parsedId>>
    /\ UNCHANGED <<tvars, bvars, dvars, ivars, rvars, qvars, cvars, lvars>>

FormatMethodId ==
    /\ pc = "format"
    /\ idParts.kind = "method"
    /\ idText' = formatMethodId(idParts.parts[1], idParts.parts[2], idParts.parts[3])
    /\ pc' = "parse"
    /\ UNCHANGED <<idParts, parsedId>>
    /\ UNCHANGED <<tvars, bvars, dvars, ivars, rvars, qvars, cvars, lvars>>

ParseEntityId ==
    /\ pc = "parse"
    /\ parsedId' = parseEntityId(idText)
    /\ pc' = "parsed"
    /\ UNCHANGED <<idParts, idText>>
    /\ UNCHANGED <<tvars, bvars, dvars, ivars, rvars, qvars, cvars, lvars>>

NextEntityId ==
    \/ FormatFileId
    \/ FormatClassId
    \/ FormatFunctionId
    \/ FormatInterfaceId
    \/ FormatMethodId
    \/ ParseEntityId

SpecEntityId == InitEntityId /\ [][NextEntityId]_vars

----
(* Graph query: the calls of getDependencies, getDependents and query on    *)
(* graphs whose edges carry different relationship labels                   *)

\* Bound on the number of edges of a queried graph.
MaxQueryEdges == 3

\* The edges of the queried graphs: two parallel edges A -> B with different
\* labels, a path A -> B -> C beside the direct edge A -> C, and an edge
\* C -> A that closes cycles.
QueryEdges ==
    { [source |-> "A", relationship |-> "imports", target |-> "B"],
      [source |-> "A", relationship |-> "calls", target |-> "B"],
      [source |-> "B", relationship |-> "calls", target |-> "C"],
      [source |-> "A", relationship |-> "extends", target |-> "C"],
      [source |-> "C", relationship |-> "imports", target |-> "A"] }

InitQuery ==
    /\ pc = "related"
    /\ graph \in {[nodes |-> ns, edges |-> es] :
                    ns \in NodeMaps, es \in SeqsUpTo(QueryEdges, MaxQueryEdges)}
    /\ startEntityId \in Entities
    /\ direction \in {"forward", "reverse"}
    /\ transitive \in BOOLEAN
    /\ bfs = BFSInit("A")
    /\ bfsOut = "idle"
    /\ dfs = DFSInit
    /\ dfsOut = "idle"
    /\ queryOut = [threw |-> "idle"]
    /\ related = [state |-> "running"]
    /\ IdleEntityId
    /\ IdleCycles
    /\ IdleTsConfig
    /\ IdleBuild
    /\ IdleDiff
    /\ IdleImpact
    /\ IdleResolve

\* GraphQueryService.getDependencies(graph, entityId, transitive); the
\* failure is that of traverseBFS.
GetDependencies ==
    /\ pc = "related"
    /\ direction = "forward"
    /\ related' = IF NotFound(graph, startEntityId)
                  THEN [threw |-> "EntityNotFound"]
                  ELSE [entities |-> getDependencies(graph, startEntityId, transitive)]
    /\ pc' = "query"
    /\ UNCHANGED <<tvars, bvars, dvars, ivars, rvars, evars, cvars, lvars>>

\* GraphQueryService.getDependents(graph, entityId, transitive)
GetDependents ==
    /\ pc = "related"
    /\ direction = "reverse"
    /\ related' = IF NotFound(graph, startEntityId)
                  THEN [threw |-> "EntityNotFound"]
                  ELSE [entities |-> getDependents(graph, startEntityId, transitive)]
    /\ pc' = "query"
    /\ UNCHANGED <<tvars, bvars, dvars, ivars, rvars, evars, cvars, lvars>>

NextQuery ==
    \/ GetDependencies
    \/ GetDependents
    \/ Query

SpecQuery == InitQuery /\ [][NextQuery]_vars

----
(* Cycle detection: the inputs and the call of detectCycles                 *)

\* Bound on the number of edges of a graph searched for cycles.
MaxCycleEdges == 3

\* Object.keys of the node maps of the searched graphs: no node, some of the
\* entities, or all of them, in one order or another.
CycleKeyOrders ==
    { <<>>, <<"A">>, <<"A", "B">>, <<"B", "A">>, <<"A", "B", "C">>, <<"C", "B", "A">> }

\* The searched graphs: the edges may name entities that have no node.
CycleGraphs ==
    {[nodes |-> [e \in Range(keys) |-> [type |-> "file"]], keys |-> keys, edges |-> es] :
        keys \in CycleKeyOrders, es \in SeqsUpTo(TraversalEdge, MaxCycleEdges)}

InitCycles ==
    /\ pc = "detect"
    /\ cycleGraph \in CycleGraphs
    /\ cyclesOut = [state |-> "running"]
    /\ IdleEntityId
    /\ IdleQuery
    /\ IdleTsConfig
    /\ IdleTraversal
    /\ IdleBuild
    /\ IdleDiff
    /\ IdleImpact
    /\ IdleResolve

\* detectCycles(graph)
DetectCycles ==
    /\ pc = "detect"
    /\ cyclesOut' = [cycles |-> detectCycles(cycleGraph)]
    /\ pc' = "detected"
    /\ UNCHANGED cycleGraph
    /\ UNCHANGED <<tvars, bvars, dvars, ivars, rvars, evars, qvars, lvars>>

NextCycles == DetectCycles

SpecCycles == InitCycles /\ [][NextCycles]_vars

----
(* The tsconfig cache: loadTsConfig and clearTsConfigCache, with            *)
(* tsconfig.json files that change between the calls                        *)

\* Most TsConfigPaths objects created in one behaviour.
MaxObjects == 2

\* What tsconfig.json of a project root can be: missing, not JSON, JSON
\* without compilerOptions, compilerOptions without baseUrl and paths,
\* with an empty baseUrl only, with a baseUrl only, with paths.
TsConfigFiles ==
    { [exists |-> FALSE],
      [exists |-> TRUE, json |-> FALSE],
      [exists |-> TRUE, json |-> TRUE, compilerOptions |-> {}],
      [exists |-> TRUE, json |-> TRUE,
       compilerOptions |-> {[baseUrl |-> {}, paths |-> <<>>]}],
      [exists |-> TRUE, json |-> TRUE,
       compilerOptions |-> {[baseUrl |-> {<<>>}, paths |-> <<>>]}],
      [exists |-> TRUE, json |-> TRUE,
       compilerOptions |-> {[baseUrl |-> {<<".", "/", "src">>}, paths |-> <<>>]}],
      [exists |-> TRUE, json |-> TRUE,
       compilerOptions |-> {[baseUrl |-> {}, paths |-> ProjectAliases.paths]}] }

\* loadTsConfig past the cache check (lines 87-178): null ({}) or a new
\* TsConfigPaths object, whose identity is `object`.
ReadTsConfig(file, object) ==
    IF ~file.exists THEN {}
    ELSE IF ~file.json THEN {}
    ELSE IF file.compilerOptions = {} THEN {}
    ELSE LET compilerOptions == CHOOSE o \in file.compilerOptions : TRUE
         IN  IF compilerOptions.baseUrl \in {{}, {<<>>}} /\ Len(compilerOptions.paths) = 0
             THEN {}
             ELSE {[object |-> object, baseUrl |-> compilerOptions.baseUrl,
                    paths |-> compilerOptions.paths]}

\* tsconfigCache.set that leaves a null result out of the cache.
CacheSet_skipNull(cache, projectRoot, result) ==
    IF result = {} THEN cache
    ELSE [root \in DOMAIN cache \cup {projectRoot} |->
            IF root = projectRoot THEN result ELSE cache[root]]

\* tsconfigCache.set(projectRoot, result)
CacheSet(cache, projectRoot, result) ==
    [root \in DOMAIN cache \cup {projectRoot} |->
        IF root = projectRoot THEN result ELSE cache[root]]

InitTsConfig ==
    /\ pc = "tsconfig"
    /\ tsconfigCache = <<>>
    /\ tsconfigFiles \in [ProjectRoots -> TsConfigFiles]
    /\ nextObject = 1
    /\ loadOut = [state |-> "idle"]
    /\ returnedSinceClear = [root \in ProjectRoots |-> {}]
    /\ IdleEntityId
    /\ IdleQuery
    /\ IdleCycles
    /\ IdleTraversal
    /\ IdleBuild
    /\ IdleDiff
    /\ IdleImpact
    /\ IdleResolve

\* loadTsConfig(projectRoot), answered from the cache (lines 83-85)
LoadTsConfigCached(projectRoot) ==
    /\ pc = "tsconfig"
    /\ projectRoot \in DOMAIN tsconfigCache
    /\ loadOut' = [state |-> "returned", projectRoot |-> projectRoot,
                   result |-> tsconfigCache[projectRoot], consulted |-> FALSE,
                   first |-> returnedSinceClear[projectRoot] = {},
                   file |-> tsconfigFiles[projectRoot]]
    /\ returnedSinceClear' = [returnedSinceClear EXCEPT
                                 ![projectRoot] = @ \cup {tsconfigCache[projectRoot]}]
    /\ UNCHANGED <<pc, tsconfigCache, tsconfigFiles, nextObject>>
    /\ UNCHANGED <<tvars, bvars, dvars, ivars, rvars, evars, qvars, cvars>>

\* loadTsConfig(projectRoot), answered from tsconfig.json (lines 87-178)
LoadTsConfigRead(projectRoot) ==
    /\ pc = "tsconfig"
    /\ projectRoot \notin DOMAIN tsconfigCache
    /\ nextObject <= MaxObjects
    /\ LET Finish(result) ==
            /\ tsconfigCache' = CacheSet(tsconfigCache, projectRoot, result)
            /\ nextObject' = IF result = {} THEN nextObject ELSE nextObject + 1
            /\ loadOut' = [state |-> "returned", projectRoot |-> projectRoot,
                           result |-> result, consulted |-> TRUE,
                           first |-> returnedSinceClear[projectRoot] = {},
                           file |-> tsconfigFiles[projectRoot]]
            /\ returnedSinceClear' = [returnedSinceClear EXCEPT
                                         ![projectRoot] = @ \cup {result}]
       IN  Finish(ReadTsConfig(tsconfigFiles[projectRoot], nextObject))
    /\ UNCHANGED <<pc, tsconfigFiles>>
    /\ UNCHANGED <<tvars, bvars, dvars, ivars, rvars, evars, qvars, cvars>>

\* clearTsConfigCache()
ClearTsConfigCache ==
    /\ pc = "tsconfig"
    /\ tsconfigCache' = <<>>
    /\ loadOut' = [state |-> "cleared"]
    /\ returnedSinceClear' = [root \in ProjectRoots |-> {}]
    /\ UNCHANGED <<pc, tsconfigFiles, nextObject>>
    /\ UNCHANGED <<tvars, bvars, dvars, ivars, rvars, evars, qvars, cvars>>

\* tsconfig.json of a project root is written, rewritten or deleted.
WriteTsConfig(projectRoot, file) ==
    /\ pc = "tsconfig"
    /\ file # tsconfigFiles[projectRoot]
    /\ tsconfigFiles' = [tsconfigFiles EXCEPT ![projectRoot] = file]
    /\ UNCHANGED <<pc, tsconfigCache, nextObject, loadOut, returnedSinceClear>>
    /\ UNCHANGED <<tvars, bvars, dvars, ivars, rvars, evars, qvars, cvars>>

NextTsConfig ==
    \/ \E projectRoot \in ProjectRoots : LoadTsConfigCached(projectRoot)
    \/ \E projectRoot \in ProjectRoots : LoadTsConfigRead(projectRoot)
    \/ ClearTsConfigCache
    \/ \E projectRoot \in ProjectRoots, file \in TsConfigFiles :
          WriteTsConfig(projectRoot, file)

SpecTsConfig == InitTsConfig /\ [][NextTsConfig]_vars

----
(* Alias patterns: matchPathAlias on one pattern with one template, the      *)
(* pattern, the specifier and the template spelt character by character      *)

\* Bound on the length of a pattern.
MaxPatternLen == 3

\* Bound on the length of a specifier.
MaxSpecifierLen == 3

\* The characters of the specifiers; a pattern may also hold "*".
AliasChars == {"a", "b"}

\* The specifiers that are matched.
AliasSpecifiers == SeqsUpTo(AliasChars, MaxSpecifierLen)

\* The patterns: not empty, with at most one "*".
AliasPatterns ==
    {p \in SeqsUpTo(AliasChars \cup {"*"}, MaxPatternLen) :
        /\ p # <<>>
        /\ Cardinality({i \in 1..Len(p) : p[i] = "*"}) <= 1}

\* The replacement templates: "*" at the end, at the beginning, absent.
AliasTemplates == { <<"lib", "/", "*">>, <<"*", "/", "lib">>, <<"lib">> }

InitAlias ==
    /\ pc = "match"
    /\ resolveFrom \in AliasSpecifiers
    /\ resolveConfig \in {{[baseUrl |-> {},
                            paths |-> <<[pattern |-> p, mappedPaths |-> <<m>>]>>]} :
                            p \in AliasPatterns, m \in AliasTemplates}
    /\ resolverDisk = [exists |-> {}, throws |-> {}]
    /\ matchOut = <<>>
    /\ resolved = {}
    /\ IdleTraversal
    /\ IdleBuild
    /\ IdleDiff
    /\ IdleImpact
    /\ IdleOthers

NextAlias == MatchPathAlias

SpecAlias == InitAlias /\ [][NextAlias]_vars

----
(* Properties of the traversal (checked under Spec / FairSpec)              *)

\* The entities one edge away from a member of S in the given direction.
StepSet(g, dir, S) ==
    {IF dir = "forward" THEN g.edges[i].target ELSE g.edges[i].source :
        i \in {j \in 1..Len(g.edges) :
                 IF dir = "forward" THEN g.edges[j].source \in S
                                    ELSE g.edges[j].target \in S}}

RECURSIVE ClosureOf(_, _, _)
ClosureOf(g, dir, S) ==
    LET S2 == S \cup StepSet(g, dir, S)
    IN  IF S2 = S THEN S ELSE ClosureOf(g, dir, S2)

\* The entities reachable from e by one or more edges.
Reachable(g, dir, e) == ClosureOf(g, dir, StepSet(g, dir, {e}))

\* The length of a shortest path from e to x (x reachable from e by >= 1 edge).
RECURSIVE LevelOf(_, _, _, _, _)
LevelOf(g, dir, S, x, k) ==
    IF x \in S \/ k > Len(g.edges) THEN k ELSE LevelOf(g, dir, StepSet(g, dir, S), x, k + 1)

Distance(g, dir, e, x) == LevelOf(g, dir, StepSet(g, dir, {e}), x, 1)

\* An edge joins x to y in the given direction.
Joined(g, dir, x, y) ==
    \E i \in 1..Len(g.edges) :
        IF dir = "forward" THEN g.edges[i].source = x /\ g.edges[i].target = y
                           ELSE g.edges[i].target = x /\ g.edges[i].source = y

Ids(results) == {r.entityId : r \in Range(results)}

NoDuplicates(results) == Cardinality(Ids(results)) = Len(results)

\* C3: a transitive traverseBFS from an entity that has a node returns exactly
\* the entities reachable from it by one or more edges in the chosen
\* direction, without the start entity, each exactly once.
C3_TransitiveBFSReturnsReachable ==
    (bfsOut = "returned" /\ transitive) =>
        /\ Ids(bfs.results) = Reachable(graph, direction, startEntityId) \ {startEntityId}
        /\ NoDuplicates(bfs.results)

\* C3 witness: a transitive traversal from an entity on a cycle has returned
\* two entities.
C3_Witness ==
    /\ bfsOut = "returned"
    /\ transitive
    /\ startEntityId \in Reachable(graph, direction, startEntityId)
    /\ Len(bfs.results) = 2

\* C4 (as stated): a non-transitive traverseBFS returns exactly the direct
\* neighbours of the start entity, each once, all at depth 1.
C4_Original_DirectNeighbours ==
    (bfsOut = "returned" /\ ~transitive) =>
        /\ Ids(bfs.results) = StepSet(graph, direction, {startEntityId})
        /\ NoDuplicates(bfs.results)
        /\ \A r \in Range(bfs.results) : r.depth = 1

\* C4 (amended): a non-transitive traverseBFS returns exactly the direct
\* neighbours of the start entity other than the start entity itself, each
\* once regardless of parallel edges, all at depth 1, in both directions.
C4_DirectNeighboursExceptStart ==
    (bfsOut = "returned" /\ ~transitive) =>
        /\ Ids(bfs.results) = StepSet(graph, direction, {startEntityId}) \ {startEntityId}
        /\ NoDuplicates(bfs.results)
        /\ \A r \in Range(bfs.results) : r.depth = 1

\* C4 witness: a non-transitive traversal has returned one result from a
\* start entity with a self-loop and two parallel edges to its neighbour.
C4_Witness ==
    /\ bfsOut = "returned"
    /\ ~transitive
    /\ startEntityId \in StepSet(graph, direction, {startEntityId})
    /\ Len(bfs.results) = 1
    /\ Len(getNeighbors(graph.edges, startEntityId, direction)) = 3

\* C5: in every result of traverseBFS, depth is the length of a shortest path
\* from the start entity, and path has depth+1 entries, begins with the start
\* entity, ends with the result entity and follows edges of the graph.
C5_DepthIsShortestPath ==
    (bfsOut = "returned") =>
        \A r \in Range(bfs.results) :
            /\ r.depth = Distance(graph, direction, startEntityId, r.entityId)
            /\ Len(r.path) = r.depth + 1
            /\ r.path[1] = startEntityId
            /\ r.path[Len(r.path)] = r.entityId
            /\ \A i \in 1..(Len(r.path) - 1) :
                   Joined(graph, direction, r.path[i], r.path[i + 1])

\* C5 witness: y is reached directly and, through x, by a longer path that is
\* queued as well (x comes first in edge order); y is reported at depth 1
\* with the direct path.
C5_Witness ==
    /\ bfsOut = "returned"
    /\ transitive
    /\ \E x, y \in Entities \ {startEntityId} :
          /\ x # y
          /\ getNeighbors(graph.edges, startEntityId, direction) = <<x, y>>
          /\ Joined(graph, direction, x, y)
          /\ \E r \in Range(bfs.results) :
                r.entityId = y /\ r.depth = 1 /\ r.path = <<startEntityId, y>>

\* C6: traverseBFS and traverseDFS terminate on every input, and visited.add
\* runs at most once per entity in each of them.
C6_TraversalsTerminate ==
    /\ <>(bfsOut # "running" /\ dfsOut # "running")
    /\ [](bfs.adds = Cardinality(bfs.visited) /\ dfs.adds = Cardinality(dfs.visited))

\* C6 witness: both traversals have returned on a graph with a cycle through
\* the start entity and a self-loop.
C6_Witness ==
    /\ bfsOut = "returned"
    /\ dfsOut = "returned"
    /\ transitive
    /\ \E x \in Entities \ {startEntityId} :
          /\ x \in Reachable(graph, direction, startEntityId)
          /\ startEntityId \in Reachable(graph, direction, x)
    /\ \E x \in Entities : Joined(graph, direction, x, x)

\* C7: traverseBFS, traverseDFS and query fail, with no result, exactly when
\* the start entity is not a key of graph.nodes.
C7_NotFoundExactlyWhenNoNode ==
    (pc = "done") =>
        LET missing == startEntityId \notin DOMAIN graph.nodes
        IN  /\ (bfsOut = "threw") <=> missing
            /\ (dfsOut = "threw") <=> missing
            /\ ("threw" \in DOMAIN queryOut) <=> missing
            /\ missing => (bfs.results = <<>> /\ dfs.results = <<>>)
            /\ ~missing => (bfsOut = "returned" /\ dfsOut = "returned"
                            /\ "entities" \in DOMAIN queryOut)

\* C7 witness: the three operations have failed for a start entity without a
\* node that edges of the graph do mention.
C7_Witness ==
    /\ pc = "done"
    /\ startEntityId \notin DOMAIN graph.nodes
    /\ bfsOut = "threw"
    /\ Joined(graph, "forward", "A", startEntityId)

\* C8: traverseDFS and traverseBFS return the same set of entity IDs and the
\* same number of results (or both fail).
C8_DFSAgreesWithBFS ==
    (pc = "done") =>
        /\ bfsOut = dfsOut
        /\ Ids(dfs.results) = Ids(bfs.results)
        /\ Len(dfs.results) = Len(bfs.results)

\* C8 witness: both have returned the same two entities, with a depth that
\* differs between the two.
C8_Witness ==
    /\ pc = "done"
    /\ Len(bfs.results) = 2
    /\ \E i, j \in 1..2 :
          /\ bfs.results[i].entityId = dfs.results[j].entityId
          /\ bfs.results[i].depth # dfs.results[j].depth

----
(* Properties of graph construction (checked under SpecBuild)               *)

\* The positions <<file, import>> of the non-type-only imports of the input.
NonTypeImports ==
    UNION {{<<i, j>> : j \in {k \in 1..Len(parsedFiles[i].imports) :
                                  ~parsedFiles[i].imports[k].isTypeOnly}} :
              i \in 1..Len(parsedFiles)}

\* What the import at a position resolves to: {} or {path}.
ResolvedAt(ij) ==
    resolveImportPath(disk, parsedFiles[ij[1]].imports[ij[2]].from,
                      parsedFiles[ij[1]].filePath, ProjectRoot, {})

\* (a) resolved to the ID of a node, (b) resolved to no node's ID, (c) unresolved.
ImportsToNode == {ij \in NonTypeImports : ResolvedAt(ij) # {} /\ ResolvedAt(ij) \subseteq DOMAIN nodes}
ImportsOrphaned == {ij \in NonTypeImports : ResolvedAt(ij) # {} /\ ~(ResolvedAt(ij) \subseteq DOMAIN nodes)}
ImportsUnresolved == {ij \in NonTypeImports : ResolvedAt(ij) = {}}

\* The number of entries of a sequence that satisfy a test.
CountSeq(seq, Test(_)) == Cardinality({i \in 1..Len(seq) : Test(seq[i])})

\* C1 (as stated): every edge of the graph buildGraph returns has a source and
\* a target that are keys of the graph's node map.
C1_EveryEdgeEndsAtNodes ==
    (pc = "built") =>
        \A e \in Range(buildOut.graph.edges) :
            /\ e.source \in DOMAIN buildOut.graph.nodes
            /\ e.target \in DOMAIN buildOut.graph.nodes

\* C2: buildGraph returns; every non-type-only import yields exactly one
\* `imports` edge (importing file to resolved file) when it resolves to a
\* node's ID, exactly one skipped-edge record when it resolves to no node's
\* ID, and neither when it does not resolve; the file nodes are exactly the
\* parsed files.
C2_ImportOutcomes ==
    (pc = "built") =>
        LET importEdges == SelectSeq(buildOut.graph.edges,
                                     LAMBDA e : e.relationship = "imports")
            fileKeys == {k \in DOMAIN buildOut.graph.nodes :
                            buildOut.graph.nodes[k].type = "file"}
            Pairs == {<<parsedFiles[ij[1]].filePath, CHOOSE t \in ResolvedAt(ij) : TRUE>> :
                        ij \in ImportsToNode \cup ImportsOrphaned}
        IN  /\ buildOut.state = "returned"
            /\ Len(importEdges) = Cardinality(ImportsToNode)
            /\ Len(skippedEdges) = Cardinality(ImportsOrphaned)
            /\ \A st \in Pairs :
                  /\ CountSeq(importEdges, LAMBDA e : e.source = st[1] /\ e.target = st[2])
                       = Cardinality({ij \in ImportsToNode :
                                        /\ parsedFiles[ij[1]].filePath = st[1]
                                        /\ ResolvedAt(ij) = {st[2]}})
                  /\ CountSeq(skippedEdges, LAMBDA e : e.source = st[1] /\ e.target = st[2])
                       = Cardinality({ij \in ImportsOrphaned :
                                        /\ parsedFiles[ij[1]].filePath = st[1]
                                        /\ ResolvedAt(ij) = {st[2]}})
            /\ fileKeys = {parsedFiles[i].filePath : i \in 1..Len(parsedFiles)}

\* C2 witness: a build has returned whose input has an import of each kind:
\* one resolved to a node, one orphaned, one unresolved.
C2_Witness ==
    /\ pc = "built"
    /\ ImportsToNode # {}
    /\ ImportsOrphaned # {}
    /\ ImportsUnresolved # {}

----
(* Properties of the graph diff (checked under SpecDiff)                    *)

NodeFields == {"line", "endLine", "type", "file"}

\* The fields in which two node records differ.
DifferingFields(n1, n2) == {f \in NodeFields : Field(n1, f) # Field(n2, f)}

\* The (source, relationship, target) triples of a list of edges.
Triples(es) == {<<e.source, e.relationship, e.target>> : e \in Range(es)}

\* C9: addedNodes = keys(g2) - keys(g1), removedNodes = keys(g1) - keys(g2),
\* and a common key is in modifiedNodes (once) exactly when line, endLine,
\* type or file differs, with `changes` naming exactly the differing fields.
C9_NodeDiff ==
    (pc = "compared") =>
        LET keys1 == DOMAIN graph1.nodes
            keys2 == DOMAIN graph2.nodes
        IN  /\ Range(diff.addedNodes) = keys2 \ keys1
            /\ Len(diff.addedNodes) = Cardinality(keys2 \ keys1)
            /\ Range(diff.removedNodes) = keys1 \ keys2
            /\ Len(diff.removedNodes) = Cardinality(keys1 \ keys2)
            /\ {m.entityId : m \in Range(diff.modifiedNodes)}
                 = {k \in keys1 \cap keys2 :
                      DifferingFields(graph1.nodes[k], graph2.nodes[k]) # {}}
            /\ Len(diff.modifiedNodes)
                 = Cardinality({m.entityId : m \in Range(diff.modifiedNodes)})
            /\ \A m \in Range(diff.modifiedNodes) :
                  /\ Range(m.changes)
                       = DifferingFields(graph1.nodes[m.entityId], graph2.nodes[m.entityId])
                  /\ Len(m.changes) = Cardinality(Range(m.changes))
                  /\ m.before = graph1.nodes[m.entityId]
                  /\ m.after = graph2.nodes[m.entityId]

\* C9 witness: a diff with an added node and a common node of which only
\* endLine differs.
C9_Witness ==
    /\ pc = "compared"
    /\ Len(diff.addedNodes) = 1
    /\ \E m \in Range(diff.modifiedNodes) : m.changes = <<"endLine">>

\* C10 (as stated): addedEdges / removedEdges hold exactly the triples of one
\* graph that occur in no edge of the other, each triple listed once, and the
\* summary counts those distinct triples.
C10_EdgeDiffIsSetDifference ==
    (pc = "compared") =>
        LET t1 == Triples(graph1.edges)
            t2 == Triples(graph2.edges)
        IN  /\ Triples(diff.addedEdges) = t2 \ t1
            /\ Triples(diff.removedEdges) = t1 \ t2
            /\ Len(diff.addedEdges) = Cardinality(t2 \ t1)
            /\ Len(diff.removedEdges) = Cardinality(t1 \ t2)
            /\ diff.summary.totalEdgesAdded = Cardinality(t2 \ t1)
            /\ diff.summary.totalEdgesRemoved = Cardinality(t1 \ t2)

\* The five counters of a diff summary are all zero.
AllCountersZero(d) ==
    /\ d.summary.totalNodesAdded = 0
    /\ d.summary.totalNodesRemoved = 0
    /\ d.summary.totalNodesModified = 0
    /\ d.summary.totalEdgesAdded = 0
    /\ d.summary.totalEdgesRemoved = 0

\* The five result lists of a diff are all empty.
AllListsEmpty(d) ==
    /\ d.addedNodes = <<>>
    /\ d.removedNodes = <<>>
    /\ d.modifiedNodes = <<>>
    /\ d.addedEdges = <<>>
    /\ d.removedEdges = <<>>

\* C11: when both arguments are the same graph g, compareGraphs(g, g) has
\* five zero counters and five empty lists and areGraphsIdentical(g, g) is
\* true, whatever g holds (duplicate edges included).
C11_DiffOfGraphWithItself ==
    (pc = "checked" /\ graph1 = graph2) =>
        /\ AllCountersZero(diff)
        /\ AllListsEmpty(diff)
        /\ AllCountersZero(diffRev)
        /\ AllListsEmpty(diffRev)
        /\ identical = TRUE

\* C11 witness: a graph with two nodes and the same edge twice has been
\* compared with itself.
C11_Witness ==
    /\ pc = "checked"
    /\ graph1 = graph2
    /\ Len(graph1.keys) = 2
    /\ Len(graph1.edges) = 2
    /\ graph1.edges[1] = graph1.edges[2]
    /\ identical = TRUE

\* The (entityId, before, after) triples of a list of modified nodes.
Modifications(ms) == {<<m.entityId, m.before, m.after>> : m \in Range(ms)}

\* The same triples with before and after exchanged.
ModificationsExchanged(ms) == {<<m.entityId, m.after, m.before>> : m \in Range(ms)}

\* C12: exchanging the arguments of compareGraphs exchanges added and removed
\* (nodes and edges, as lists) and keeps the set of modified entity IDs, with
\* before and after exchanged.
C12_DiffSymmetry ==
    (pc \in {"swapped", "checked"}) =>
        /\ diff.addedNodes = diffRev.removedNodes
        /\ diff.removedNodes = diffRev.addedNodes
        /\ diff.addedEdges = diffRev.removedEdges
        /\ diff.removedEdges = diffRev.addedEdges
        /\ {m.entityId : m \in Range(diff.modifiedNodes)}
             = {m.entityId : m \in Range(diffRev.modifiedNodes)}
        /\ Modifications(diff.modifiedNodes) = ModificationsExchanged(diffRev.modifiedNodes)

\* C12 witness: both calls were made on graphs that list their keys in
\* different orders, with an added edge, a removed edge and two modified
\* nodes that the two calls list in different orders.
C12_Witness ==
    /\ pc = "swapped"
    /\ graph1.keys # graph2.keys
    /\ diff.addedEdges # <<>>
    /\ diff.removedEdges # <<>>
    /\ Len(diff.modifiedNodes) = 2
    /\ diff.modifiedNodes[1].entityId # diffRev.modifiedNodes[1].entityId

\* C12 witness (nodes): a node was added and another removed between the
\* two graphs, and both calls were made.
C12_WitnessNodes ==
    /\ pc = "swapped"
    /\ Len(diff.addedNodes) = 1
    /\ Len(diff.removedNodes) = 1

----
(* Properties of the impact analysis (checked under SpecImpact)             *)

\* Entity E is declared in file F: E is the file itself or E's node names F.
DeclaredIn(g, E, F) == E = F \/ Field(g.nodes[E], "file") = {F}

\* The transitive dependents of E: the entities from which E is reachable by
\* one or more edges, E itself excluded.
DependentsOf(g, E) == Reachable(g, "reverse", E) \ {E}

\* The triples (position of a changed file in the list, entity declared in
\* it, transitive dependent of that entity).
ImpactTriples(g, files) ==
    {t \in (1..Len(files)) \X (DOMAIN g.nodes) \X (DOMAIN g.nodes) :
        /\ DeclaredIn(g, t[2], files[t[1]])
        /\ t[3] \in DependentsOf(g, t[2])}

\* The records of a report made for dependent D of entity E of file F.
RecordsFor(rs, F, E, D) ==
    SelectSeq(rs, LAMBDA r : /\ r.entityId = D
                             /\ r.changedBy = F
                             /\ r.reason = <<"Depends on ", E, " in ", F>>)

\* C13: for a non-empty changedFiles, the report holds one record for every
\* triple (listed changed file F, entity E declared in F, transitive
\* dependent D of E), with entityId = D, changedBy = F and depth = the
\* shortest distance from E back to D, and no other record: nothing is
\* deduplicated, and affectedEntitiesCount is the number of triples.
C13_OneRecordPerTriple ==
    (pc \in {"analyzed", "filtered"} /\ changedFiles # <<>>) =>
        LET g == impactGraph
            rs == report.affectedEntities
            triples == ImpactTriples(g, changedFiles)
        IN  /\ Len(rs) = Cardinality(triples)
            /\ report.metrics.affectedEntitiesCount = Cardinality(triples)
            /\ \A F \in Range(changedFiles) : \A E \in DOMAIN g.nodes : \A D \in DOMAIN g.nodes :
                  /\ Len(RecordsFor(rs, F, E, D))
                       = Cardinality({t \in triples :
                                        changedFiles[t[1]] = F /\ t[2] = E /\ t[3] = D})
                  /\ \A r \in Range(RecordsFor(rs, F, E, D)) :
                        /\ r.depth = Distance(g, "reverse", E, D)
                        /\ r.node = g.nodes[D]

\* C13 witness: one entity is recorded twice for the same changed file, once
\* for each of two changed entities and at different depths, and the count
\* of records exceeds the number of distinct affected entities.
C13_Witness ==
    /\ pc = "analyzed"
    /\ \E i, j \in 1..Len(report.affectedEntities) :
          /\ report.affectedEntities[i].entityId = report.affectedEntities[j].entityId
          /\ report.affectedEntities[i].changedBy = report.affectedEntities[j].changedBy
          /\ report.affectedEntities[i].reason # report.affectedEntities[j].reason
          /\ report.affectedEntities[i].depth = 3
          /\ report.affectedEntities[j].depth = 2
    /\ report.metrics.affectedEntitiesCount
         > Cardinality({r.entityId : r \in Range(report.affectedEntities)})

\* The score of a report's metrics.
ScoreOf(m) == 10 * m.affectedFilesCount + 2 * m.affectedEntitiesCount + 5 * m.maxDepth

\* The risk level that belongs to a score.
LevelOfScore(score) ==
    CASE score < 20 -> "LOW"
      [] 20 <= score /\ score < 50 -> "MEDIUM"
      [] 50 <= score /\ score < 100 -> "HIGH"
      [] score >= 100 -> "CRITICAL"

\* C14: the risk level of every report of analyzeImpact, and every result of
\* calculateRiskLevel, is the level of the score
\* 10*affectedFilesCount + 2*affectedEntitiesCount + 5*maxDepth:
\* LOW below 20, MEDIUM from 20, HIGH from 50, CRITICAL from 100.
C14_RiskLevelFromScore ==
    /\ (pc \in {"analyzed", "filtered"}) =>
          report.riskLevel = LevelOfScore(ScoreOf(report.metrics))
    /\ (pc = "risk_done") => riskOut = LevelOfScore(ScoreOf(metricsIn))

\* C14 witness: a report of analyzeImpact with 2 affected files, 5 records
\* and maximum depth 3 (score 45), rated MEDIUM.
C14_Witness ==
    /\ pc = "analyzed"
    /\ report.metrics.affectedFilesCount = 2
    /\ report.metrics.affectedEntitiesCount = 5
    /\ report.metrics.maxDepth = 3
    /\ report.riskLevel = "MEDIUM"

\* The risk levels from the lowest to the highest.
RiskOrder == <<"LOW", "MEDIUM", "HIGH", "CRITICAL">>

\* Level a is at or above level b.
AtOrAbove(a, b) ==
    \E i, j \in 1..Len(RiskOrder) : RiskOrder[i] = a /\ RiskOrder[j] = b /\ i >= j

\* The canonical empty report.
IsCanonicalEmpty(r) ==
    /\ r.changedFiles = <<>>
    /\ r.affectedEntities = <<>>
    /\ r.metrics.changedFilesCount = 0
    /\ r.metrics.affectedEntitiesCount = 0
    /\ r.metrics.affectedFilesCount = 0
    /\ r.metrics.maxDepth = 0
    /\ \A t \in DOMAIN r.metrics.affectedByType : r.metrics.affectedByType[t] = 0
    /\ r.riskLevel = "LOW"

\* C15: filterByThreshold returns the report itself when its risk level is
\* at or above the threshold and the canonical empty report otherwise; it
\* never returns a report with part of the affected entities.
C15_FilterIsAllOrNothing ==
    (pc = "filtered") =>
        IF AtOrAbove(report.riskLevel, threshold)
        THEN filtered = report
        ELSE IsCanonicalEmpty(filtered)

\* C15 witness: a LOW report that lists affected entities, filtered at HIGH,
\* came back as the empty report.
C15_Witness ==
    /\ pc = "filtered"
    /\ report.riskLevel = "LOW"
    /\ report.affectedEntities # <<>>
    /\ threshold = "HIGH"
    /\ filtered.changedFiles = <<>>

\* C15 witness (kept): a HIGH report that lists affected entities, filtered
\* at MEDIUM, came back unchanged.
C15_WitnessKept ==
    /\ pc = "filtered"
    /\ report.riskLevel = "HIGH"
    /\ threshold = "MEDIUM"
    /\ filtered = report
    /\ filtered.affectedEntities # <<>>

----
(* Properties of the import resolution (checked under SpecResolve)          *)

\* A pattern matches a specifier: the two are equal, or the pattern has a
\* "*" and the specifier begins with what precedes it and ends with what
\* follows it.
PatternMatches(specifier, pattern) ==
    \/ specifier = pattern
    \/ \E k \in 1..Len(pattern) :
          /\ pattern[k] = "*"
          /\ \E w \in {SubSeq(specifier, a, b) : a \in 1..(Len(specifier) + 1),
                                                  b \in 0..Len(specifier)} :
                specifier = SubSeq(pattern, 1, k - 1) \o w
                            \o SubSeq(pattern, k + 1, Len(pattern))

\* The part of the specifier that the "*" of a matching pattern stands for.
WildcardPart(specifier, pattern) ==
    IF specifier = pattern THEN <<>>
    ELSE LET k == CHOOSE i \in 1..Len(pattern) : pattern[i] = "*"
         IN  SubSeq(specifier, k, Len(specifier) - (Len(pattern) - k))

\* The number of characters of a pattern other than "*".
PatternWeight(pattern) ==
    LET Chars(t) == CASE t = "*" -> 0 [] t = "api" -> 3 [] t = "users" -> 5 [] OTHER -> 1
        RECURSIVE Sum(_)
        Sum(k) == IF k = 0 THEN 0 ELSE Chars(pattern[k]) + Sum(k - 1)
    IN  Sum(Len(pattern))

\* The positions, in the configuration, of the patterns that match.
MatchingEntries(specifier, paths) ==
    {i \in 1..Len(paths) : PatternMatches(specifier, paths[i].pattern)}

\* The winner: the matching entry of greatest specificity, the one listed
\* first among equals.
Winner(specifier, paths) ==
    CHOOSE i \in MatchingEntries(specifier, paths) :
        \A j \in MatchingEntries(specifier, paths) :
            \/ PatternWeight(paths[i].pattern) > PatternWeight(paths[j].pattern)
            \/ /\ PatternWeight(paths[i].pattern) = PatternWeight(paths[j].pattern)
               /\ i <= j

\* The candidates that the templates of one entry give for a specifier.
CandidatesOfEntry(config, specifier, entry) ==
    MapSeq(entry.mappedPaths,
           LAMBDA t : AliasFullPath(config, ProjectRoot, t,
                                    WildcardPart(specifier, entry.pattern)))

\* The five paths probed for a base path.
ProbeSet(basePath) ==
    { basePath,
      basePath \o <<".ts">>,
      basePath \o <<".tsx">>,
      basePath \o <<"/", "index", ".ts">>,
      basePath \o <<"/", "index", ".tsx">> }

\* The probed paths of a base path that exist (and whose probe does not throw).
ExistingProbes(basePath) ==
    {c \in ProbeSet(basePath) :
        c \in resolverDisk.exists /\ c \notin resolverDisk.throws}

\* An alias resolution is under way or over: a configuration was given and
\* the specifier is not relative.
AliasCase ==
    /\ pc \in {"resolve", "resolved"}
    /\ resolveConfig # {}
    /\ resolveFrom # RelativeSpecifier

TheConfig == CHOOSE c \in resolveConfig : TRUE

\* C16: the candidates of matchPathAlias are exactly those of the templates
\* of the matching pattern of greatest specificity (the first listed among
\* equals), none when no pattern matches; the resolution is null when none
\* of the winner's candidates exists, whatever other patterns would give.
C16_MostSpecificPatternOnly ==
    AliasCase =>
        LET paths == TheConfig.paths
        IN  IF MatchingEntries(resolveFrom, paths) = {}
            THEN matchOut = <<>> /\ (pc = "resolved" => resolved = {})
            ELSE LET winner == paths[Winner(resolveFrom, paths)]
                     expected == CandidatesOfEntry(TheConfig, resolveFrom, winner)
                     found == UNION {ExistingProbes(expected[k]) : k \in 1..Len(expected)}
                 IN  /\ matchOut = expected
                     /\ (pc = "resolved") =>
                           /\ (found = {}) => resolved = {}
                           /\ resolved \subseteq
                                 {normalizePath(c, ProjectRoot) : c \in found}

\* C16 witness: the catch-all is listed before `@api/*`, the file the
\* catch-all leads to exists, none of the candidates of `@api/*` does, and
\* `@api/users` came out unresolved.
C16_Witness ==
    /\ pc = "resolved"
    /\ resolveFrom = AliasSpecifier
    /\ resolveConfig # {}
    /\ Len(TheConfig.paths) = 2
    /\ TheConfig.paths[1].pattern = <<"*">>
    /\ TheConfig.paths[2].pattern = <<"@", "api", "/", "*">>
    /\ TheConfig.baseUrl = {<<".", "/", "src">>}
    /\ SrcDir \o <<"/", "@", "api", "/", "users", ".ts">> \in resolverDisk.exists
    /\ resolved = {}

\* C17: with several candidates (one per template of the winning pattern),
\* the result is a file found for the earliest candidate that has an
\* existing probe; a later candidate is used only when no probe of any
\* earlier one exists, and the result is null when none has one.
C17_TemplatesInOrder ==
    (AliasCase /\ pc = "resolved" /\ matchOut # <<>>) =>
        LET hits == {k \in 1..Len(matchOut) : ExistingProbes(matchOut[k]) # {}}
        IN  IF hits = {} THEN resolved = {}
            ELSE LET first == CHOOSE k \in hits : \A j \in hits : k <= j
                 IN  /\ resolved # {}
                     /\ resolved \subseteq {normalizePath(c, ProjectRoot) :
                                               c \in ExistingProbes(matchOut[first])}

\* C17 witness: of two templates the first has only its bare path on disk
\* and the second its .ts file; the bare path of the first is the result.
C17_Witness ==
    /\ pc = "resolved"
    /\ Len(matchOut) = 2
    /\ ExistingProbes(matchOut[1]) = {matchOut[1]}
    /\ matchOut[2] \o <<".ts">> \in ExistingProbes(matchOut[2])
    /\ resolved = {<<"src", "/", "core", "/", "api", "/", "users">>}

\* C17 witness (later template): no probe of the first template exists and
\* the file of the second template is the result.
C17_WitnessLater ==
    /\ pc = "resolved"
    /\ Len(matchOut) = 2
    /\ ExistingProbes(matchOut[1]) = {}
    /\ resolved = {<<"src", "/", "shared", "/", "api", "/", "users", ".ts">>}

\* The first of a list of (absolute path, project-relative path) pairs whose
\* absolute path exists, as {relative path}; {} when none exists.
FirstExisting(order) ==
    LET hits == {i \in 1..Len(order) :
                    /\ order[i][1] \in resolverDisk.exists
                    /\ order[i][1] \notin resolverDisk.throws}
    IN  IF hits = {} THEN {}
        ELSE {order[CHOOSE i \in hits : \A j \in hits : i <= j][2]}

\* The candidates of ./b imported by src/a.ts.
RelBare == <<SrcDir \o <<"/", "b">>, <<"src", "/", "b">>>>
RelTs == <<SrcDir \o <<"/", "b", ".ts">>, <<"src", "/", "b", ".ts">>>>
RelTsx == <<SrcDir \o <<"/", "b", ".tsx">>, <<"src", "/", "b", ".tsx">>>>
RelIndexTs == <<SrcDir \o <<"/", "b", "/", "index", ".ts">>,
                <<"src", "/", "b", "/", "index", ".ts">>>>
RelIndexTsx == <<SrcDir \o <<"/", "b", "/", "index", ".tsx">>,
                 <<"src", "/", "b", "/", "index", ".tsx">>>>

\* C18 (as stated): a relative specifier resolves to the first existing
\* candidate in the order bare path, .ts, .tsx, /index.ts, /index.tsx, and
\* to null when none exists.
C18_Original_BareFirst ==
    (pc = "resolved" /\ resolveFrom = RelativeSpecifier) =>
        resolved = FirstExisting(<<RelBare, RelTs, RelTsx, RelIndexTs, RelIndexTsx>>)

\* C18 (amended): a relative specifier resolves to the first existing
\* candidate in the order .ts, .tsx, /index.ts, /index.tsx, bare path, and
\* to null (no error) when none exists.
C18_BareLast ==
    (pc = "resolved" /\ resolveFrom = RelativeSpecifier) =>
        resolved = FirstExisting(<<RelTs, RelTsx, RelIndexTs, RelIndexTsx, RelBare>>)

\* C18 witness: the bare path and the index.ts under it both exist, and
\* ./b resolved to src/b/index.ts.
C18_Witness ==
    /\ pc = "resolved"
    /\ resolveFrom = RelativeSpecifier
    /\ resolverDisk.exists = {RelBare[1], RelIndexTs[1]}
    /\ resolved = {<<"src", "/", "b", "/", "index", ".ts">>}

----
(* Further properties of the graph construction (checked under SpecBuild)   *)

\* What the import at a position resolves to under the alias configuration
\* loaded for the project root.
ResolvedWithAliasesAt(ij) ==
    resolveImportPath(disk, parsedFiles[ij[1]].imports[ij[2]].from,
                      parsedFiles[ij[1]].filePath, ProjectRoot, projectTsConfig)

\* C19 (as stated): when the project's alias configuration maps a
\* non-relative, non-type-only import to a file of the parsed set, the graph
\* has an `imports` edge from the importing file to that file.
C19_AliasImportGetsEdge ==
    (pc = "built") =>
        \A ij \in NonTypeImports :
            LET imp == parsedFiles[ij[1]].imports[ij[2]]
                target == ResolvedWithAliasesAt(ij)
            IN  (/\ projectTsConfig # {}
                 /\ ~StartsWithDot(imp.from)
                 /\ target # {}
                 /\ target \subseteq {parsedFiles[k].filePath : k \in 1..Len(parsedFiles)})
                => \E e \in Range(buildOut.graph.edges) :
                      /\ e.source = parsedFiles[ij[1]].filePath
                      /\ e.relationship = "imports"
                      /\ {e.target} = target

\* The type-only imports, as (file, import) positions.
TypeOnlyImports ==
    UNION {{<<i, j>> : j \in {k \in 1..Len(parsedFiles[i].imports) :
                                  parsedFiles[i].imports[k].isTypeOnly}} :
              i \in 1..Len(parsedFiles)}

\* C20: type-only imports leave no trace: the `imports` edges and the
\* skipped-edge records of a file are as many as its non-type-only imports
\* that resolve, wherever the type-only imports point; a build without a
\* resolving non-type-only import has no `imports` edge, no skipped-edge
\* record and no warning.
C20_TypeOnlyImportsLeaveNoTrace ==
    (pc = "built") =>
        /\ \A i \in 1..Len(parsedFiles) :
              CountSeq(buildOut.graph.edges,
                       LAMBDA e : e.relationship = "imports"
                                  /\ e.source = parsedFiles[i].filePath)
              + CountSeq(skippedEdges, LAMBDA e : e.source = parsedFiles[i].filePath)
              = Cardinality({ij \in NonTypeImports : ij[1] = i /\ ResolvedAt(ij) # {}})
        /\ (NonTypeImports = {}) =>
              /\ \A e \in Range(buildOut.graph.edges) : e.relationship # "imports"
              /\ skippedEdges = <<>>
              /\ buildOut.warned = FALSE
              /\ buildOut.warnedTargets = {}

\* C20 witness: src/a.ts has only type-only imports of ./b, src/b.ts is on
\* disk and in the parsed set, and the build made no edge and no warning.
C20_Witness ==
    /\ pc = "built"
    /\ Len(parsedFiles) = 2
    /\ TypeOnlyImports # {}
    /\ NonTypeImports = {}
    /\ DiskFileB \in disk.exists
    /\ FileB \in DOMAIN buildOut.graph.nodes
    /\ buildOut.graph.edges = <<>>
    /\ buildOut.warned = FALSE

\* C20 witness (not parsed): a type-only import of ./b, src/b.ts on disk but
\* not in the parsed set, and no skipped-edge record.
C20_WitnessNotParsed ==
    /\ pc = "built"
    /\ TypeOnlyImports # {}
    /\ DiskFileB \in disk.exists
    /\ FileB \notin DOMAIN buildOut.graph.nodes
    /\ skippedEdges = <<>>

----
(* Properties of the node pass of buildGraph (checked under SpecBuild)      *)

\* The node addFileNodes writes for a class, method or function declaration.
DeclarationNode(type, filePath, decl) ==
    [type |-> type, file |-> filePath, line |-> decl.line, endLine |-> decl.endLine]

\* The declarations of the input with the entity ID and the node of each.
InputDeclarations ==
    UNION { {[id |-> formatClassId(pf.filePath, c.name),
              node |-> DeclarationNode("class", pf.filePath, c)] :
                c \in Range(pf.classes)}
            \cup
            UNION { {[id |-> formatMethodId(pf.filePath, c.name, m.name),
                      node |-> DeclarationNode("method", pf.filePath, m)] :
                        m \in Range(c.methods)} : c \in Range(pf.classes) }
            \cup
            {[id |-> formatFunctionId(pf.filePath, f.name),
              node |-> DeclarationNode("function", pf.filePath, f)] :
                f \in Range(pf.functions)}
          : pf \in Range(parsedFiles) }

\* C21 (as stated): after buildGraph, every parsed file has a file node under
\* its ID, every class, method and function of the input has a node under its
\* entity ID with the type and line range of that declaration, and the `file`
\* field of every non-file node names a file-type node of the graph.
C21_EveryDeclarationHasItsNode ==
    buildOut.state = "returned" =>
        LET ns == buildOut.graph.nodes
        IN  /\ \A pf \in Range(parsedFiles) :
                   /\ formatFileId(pf.filePath) \in DOMAIN ns
                   /\ ns[formatFileId(pf.filePath)] = [type |-> "file"]
            /\ \A d \in InputDeclarations :
                   d.id \in DOMAIN ns /\ ns[d.id] = d.node
            /\ \A id \in DOMAIN ns :
                   ns[id].type # "file" =>
                       /\ "file" \in DOMAIN ns[id]
                       /\ ns[id].file \in DOMAIN ns
                       /\ ns[ns[id].file].type = "file"

----
(* Properties of the entity IDs (checked under SpecEntityId)                *)

\* The number of colons that stand, without a gap, right before position i.
ColonsBefore(chars, i) ==
    CHOOSE n \in 0..(i - 1) :
        /\ \A k \in 1..n : chars[i - k] = ":"
        /\ n = i - 1 \/ chars[i - n - 1] # ":"

\* The positions at which a separator `::` of the ID begins: in a run of
\* colons the separators are the first pair, the second pair and so on.
SeparatorPositions(chars) ==
    {i \in 1..(Len(chars) - 1) :
        chars[i] = ":" /\ chars[i + 1] = ":" /\ ColonsBefore(chars, i) % 2 = 0}

\* The segments between the separators, from left to right.
SegmentsOf(chars) ==
    LET seps == SeparatorPositions(chars)
        Nth(k) == CHOOSE x \in seps : Cardinality({y \in seps : y < x}) = k - 1
        n == Cardinality(seps) + 1
    IN  [k \in 1..n |->
            SubSeq(chars,
                   IF k = 1 THEN 1 ELSE Nth(k - 1) + 2,
                   IF k = n THEN Len(chars) ELSE Nth(k) - 1)]

\* One to three components as the record parseEntityId returns.
AsComponents(parts) ==
    IF Len(parts) = 1 THEN [filePath |-> parts[1]]
    ELSE IF Len(parts) = 2 THEN [filePath |-> parts[1], className |-> parts[2]]
    ELSE [filePath |-> parts[1], className |-> parts[2], memberName |-> parts[3]]

\* parseEntityId fails exactly when the ID has other than 1, 2 or 3 segments
\* and otherwise returns the segments.
ParseReturnsSegments ==
    pc = "parsed" =>
        LET segs == SegmentsOf(IdCharacters(idText))
        IN  IF Len(segs) \in {1, 2, 3}
            THEN parsedId = AsComponents(segs)
            ELSE "threw" \in DOMAIN parsedId

ContainsSeparator(c) == \E i \in 1..(Len(c) - 1) : c[i] = ":" /\ c[i + 1] = ":"

EndsWithColon(c) == c # <<>> /\ c[Len(c)] = ":"

\* C22 (as stated): parseEntityId fails exactly when the ID has other than
\* 1, 2 or 3 segments and otherwise returns the segments; parsing the output
\* of a format function returns the original components whenever none of
\* them contains `::`.
C22_Original_RoundTrip ==
    /\ ParseReturnsSegments
    /\ (pc = "parsed" /\ idParts.kind # "raw"
          /\ \A c \in Range(idParts.parts) : ~ContainsSeparator(c))
        => parsedId = AsComponents(idParts.parts)

\* C22 (amended): parseEntityId fails exactly when the ID has other than
\* 1, 2 or 3 segments and otherwise returns the segments; parsing the output
\* of a format function returns the original components whenever none of
\* them contains `::` and none of them but the last ends with `:`.
C22_RoundTripUnlessColonBeforeSeparator ==
    /\ ParseReturnsSegments
    /\ (pc = "parsed" /\ idParts.kind # "raw"
          /\ \A c \in Range(idParts.parts) : ~ContainsSeparator(c)
          /\ \A k \in 1..(Len(idParts.parts) - 1) : ~EndsWithColon(idParts.parts[k]))
        => parsedId = AsComponents(idParts.parts)

\* C22 witness: a method ID whose class name begins with a colon and whose
\* method name ends with one has been formatted and parsed back into its
\* three components.
C22_Witness ==
    /\ pc = "parsed"
    /\ idParts = [kind |-> "method", parts |-> << <<"a">>, <<":", "a">>, <<"a", ":">> >>]
    /\ parsedId = [filePath |-> <<"a">>, className |-> <<":", "a">>,
                   memberName |-> <<"a", ":">>]

\* C22 witness (failure): the ID of six colons has four (empty) segments and
\* has made parseEntityId throw.
C22_WitnessThrows ==
    /\ pc = "parsed"
    /\ idText = <<":", ":", ":", ":", ":", ":">>
    /\ "threw" \in DOMAIN parsedId

----
(* Further properties of the impact analysis (checked under SpecImpact)     *)

\* The file an affected entity counts as: the file it names when it is a
\* file, the file of its `file` field otherwise.
AffectedFileOf(a) ==
    IF a.node.type = "file" THEN a.entityId ELSE a.node.file

\* C23 (as stated): affectedFilesCount of a report of analyzeImpact is the
\* number of distinct files among its affected entities, an entity of type
\* file counting as the file it names and any other as the file of its
\* `file` field.
C23_AffectedFilesCount ==
    (pc \in {"analyzed", "filtered"} /\ Len(changedFiles) > 0) =>
        report.metrics.affectedFilesCount
            = Cardinality({AffectedFileOf(a) : a \in Range(report.affectedEntities)})

----
(* Properties of the graph query (checked under SpecQuery)                  *)

\* The positions of the edges of the graph that lead directly from the
\* queried root to x (dependencies) or from x to the root (dependents).
DirectEdgesTo(x) ==
    {i \in 1..Len(graph.edges) :
        IF direction = "forward"
        THEN graph.edges[i].source = startEntityId /\ graph.edges[i].target = x
        ELSE graph.edges[i].source = x /\ graph.edges[i].target = startEntityId}

\* `relationship` of one result is as the claim says.
RelationshipAsDirectEdge(e) ==
    LET direct == DirectEdgesTo(e.entityId)
    IN  /\ ("relationship" \in DOMAIN e) <=> (direct # {})
        /\ direct # {} =>
               e.relationship
                   = graph.edges[CHOOSE i \in direct : \A j \in direct : i <= j].relationship
        /\ e.depth >= 1
        /\ ("relationship" \in DOMAIN e) <=> (e.depth = 1)

\* C24: in every result of getDependencies, getDependents and query,
\* `relationship` is set exactly when the graph has an edge directly between
\* the root and the result entity in the queried direction, it is then the
\* label of the first such edge, and it is set for exactly the results at
\* depth 1.
C24_RelationshipOnlyForDirectEdges ==
    /\ (pc \in {"query", "done"} /\ "entities" \in DOMAIN related) =>
           \A e \in Range(related.entities) : RelationshipAsDirectEdge(e)
    /\ (pc = "done" /\ "entities" \in DOMAIN queryOut) =>
           \A e \in Range(queryOut.entities) : RelationshipAsDirectEdge(e)

\* C24 witness: a transitive query for the dependencies of A has returned B
\* at depth 1 with the label of the first of two parallel edges, and C at
\* depth 2 without a relationship.
C24_Witness ==
    /\ pc = "done"
    /\ direction = "forward"
    /\ startEntityId = "A"
    /\ graph.edges = << [source |-> "A", relationship |-> "calls", target |-> "B"],
                        [source |-> "A", relationship |-> "imports", target |-> "B"],
                        [source |-> "B", relationship |-> "calls", target |-> "C"] >>
    /\ "entities" \in DOMAIN queryOut
    /\ queryOut.entities = related.entities
    /\ \E e \in Range(queryOut.entities) :
          e.entityId = "B" /\ e.depth = 1 /\ "relationship" \in DOMAIN e
          /\ e.relationship = "calls"
    /\ \E e \in Range(queryOut.entities) :
          e.entityId = "C" /\ e.depth = 2 /\ "relationship" \notin DOMAIN e

----
(* Properties of the cycle detection (checked under SpecCycles)             *)

\* The graph has an edge from x to y.
HasForwardEdge(g, x, y) == \E e \in Range(g.edges) : e.source = x /\ e.target = y

\* The entities one forward edge away from an entity of S.
Successors(g, S) == {e.target : e \in {d \in Range(g.edges) : d.source \in S}}

\* S with everything that can be reached from it.
RECURSIVE ForwardClosure(_, _)
ForwardClosure(g, S) ==
    LET T == S \cup Successors(g, S)
    IN  IF T = S THEN S ELSE ForwardClosure(g, T)

\* The entities reached from x by a path of at least one edge.
ReachedFrom(g, x) == ForwardClosure(g, Successors(g, {x}))

\* x lies on a directed cycle.
OnCycle(g, x) == x \in ReachedFrom(g, x)

\* x and y lie on a common directed cycle (or are the same entity).
SameComponent(g, x, y) == x = y \/ (y \in ReachedFrom(g, x) /\ x \in ReachedFrom(g, y))

\* x has a node or can be reached from an entity that has one.
Searched(g, x) == x \in Range(g.keys) \/ \E k \in Range(g.keys) : x \in ReachedFrom(g, k)

\* C25: every list detectCycles returns is a directed cycle of the graph: it
\* is not empty, no entity occurs twice in it, each entry has a forward edge
\* to the next and the last entry has a forward edge to the first.
C25_ReportedCyclesAreCycles ==
    pc = "detected" =>
        \A c \in Range(cyclesOut.cycles) :
            /\ Len(c) >= 1
            /\ \A i, j \in 1..Len(c) : c[i] = c[j] => i = j
            /\ \A i \in 1..(Len(c) - 1) : HasForwardEdge(cycleGraph, c[i], c[i + 1])
            /\ HasForwardEdge(cycleGraph, c[Len(c)], c[1])

\* C25 witness: the search from A went A, B, C and the edge C -> B made it
\* report the suffix B, C of that path.
C25_Witness ==
    /\ pc = "detected"
    /\ cycleGraph.keys = <<"A", "B", "C">>
    /\ cycleGraph.edges = << [source |-> "A", relationship |-> "imports", target |-> "B"],
                             [source |-> "B", relationship |-> "imports", target |-> "C"],
                             [source |-> "C", relationship |-> "imports", target |-> "B"] >>
    /\ cyclesOut.cycles = << <<"B", "C">> >>

C26_WitnessReached ==
    /\ pc = "detected"
    /\ cycleGraph.keys = <<"A", "B">>
    /\ cycleGraph.edges = << [source |-> "B", relationship |-> "imports", target |-> "C"],
                             [source |-> "C", relationship |-> "imports", target |-> "C"] >>
    /\ cyclesOut.cycles = << <<"C">> >>

----
(* Properties of the call edges of buildGraph (checked under SpecBuild)     *)

\* The callables of the input: each method and function with its file, its
\* entity ID, its enclosing class ({} for a function) and its calls.
InputCallables ==
    UNION { UNION { {[at |-> <<i, "method", j, k>>,
                      file |-> parsedFiles[i].filePath,
                      id |-> formatMethodId(parsedFiles[i].filePath,
                                            parsedFiles[i].classes[j].name,
                                            parsedFiles[i].classes[j].methods[k].name),
                      class |-> {parsedFiles[i].classes[j].name},
                      calls |-> parsedFiles[i].classes[j].methods[k].calls] :
                        k \in 1..Len(parsedFiles[i].classes[j].methods)} :
                    j \in 1..Len(parsedFiles[i].classes) }
            \cup
            {[at |-> <<i, "function", j, 0>>,
              file |-> parsedFiles[i].filePath,
              id |-> formatFunctionId(parsedFiles[i].filePath,
                                      parsedFiles[i].functions[j].name),
              class |-> {},
              calls |-> parsedFiles[i].functions[j].calls] :
                j \in 1..Len(parsedFiles[i].functions)}
          : i \in 1..Len(parsedFiles) }

\* The target the claim gives a call string: the function of the same file
\* for a call without ".", the method of the enclosing class for a call
\* that begins with `this.` in a method (<name> is all that follows
\* `this.`), none otherwise.
ClaimedCallTarget(callable, call) ==
    IF \A i \in 1..Len(call) : call[i] # "."
    THEN {callable.file \o <<"::">> \o call}
    ELSE IF callable.class # {} /\ Len(call) >= 2 /\ call[1] = "this" /\ call[2] = "."
    THEN {callable.file \o <<"::">> \o (CHOOSE c \in callable.class : TRUE)
              \o <<"::">> \o SubSeq(call, 3, Len(call))}
    ELSE {}

\* The calls of the input that the claim gives an edge from source to target.
ClaimedCalls(source, target) ==
    UNION { {<<c.at, n>> : n \in {m \in 1..Len(c.calls) :
                                     ClaimedCallTarget(c, c.calls[m]) = {target}}} :
            c \in {d \in InputCallables : d.id = source} }

C27_WitnessClauses ==
    /\ buildOut.state = "returned"
    /\ Len(parsedFiles) = 1
    /\ parsedFiles[1].classes = <<ClassUser>>
    /\ \A e \in Range(buildOut.graph.edges) :
          /\ e.relationship = "calls"
          /\ \A i \in 1..Len(e.target) : e.target[i] # "console"
    /\ Len(buildOut.graph.edges) = 3

----
(* Properties of the tsconfig cache (checked under SpecTsConfig)            *)

\* C28: a loadTsConfig call reads the file system exactly when no call for
\* its project root has returned since the last clearTsConfigCache (or since
\* the start), and then returns what tsconfig.json holds at that moment;
\* all the calls for one project root between two clears return the same
\* result (the same object or null), whatever is written in between and
\* whatever is loaded for other project roots.
C28_MemoizedPerProjectRoot ==
    /\ \A root \in ProjectRoots : Cardinality(returnedSinceClear[root]) <= 1
    /\ loadOut.state = "returned" =>
          /\ loadOut.consulted <=> loadOut.first
          /\ returnedSinceClear[loadOut.projectRoot] = {loadOut.result}
          /\ loadOut.first =>
                /\ (loadOut.result = {}) <=> (ReadTsConfig(loadOut.file, 0) = {})
                /\ \A c \in loadOut.result : \A f \in ReadTsConfig(loadOut.file, 0) :
                      c.baseUrl = f.baseUrl /\ c.paths = f.paths

\* C28 witness: a call has returned the cached object of /p without reading
\* the file system although tsconfig.json of /p is gone by now, while /q
\* keeps its own cached null although its tsconfig.json is valid by now.
C28_Witness ==
    /\ loadOut.state = "returned"
    /\ loadOut.projectRoot = "/p"
    /\ ~loadOut.consulted
    /\ loadOut.result # {}
    /\ ~tsconfigFiles["/p"].exists
    /\ "/q" \in DOMAIN tsconfigCache
    /\ tsconfigCache["/q"] = {}
    /\ tsconfigFiles["/q"].exists /\ tsconfigFiles["/q"].json
    /\ ReadTsConfig(tsconfigFiles["/q"], 0) # {}

\* C28 witness (after a clear): the cache holds only /p, whose entry is the
\* second object created: the first one was cleared away and the call read
\* tsconfig.json again.
C28_WitnessReadAgain ==
    /\ loadOut.state = "returned"
    /\ loadOut.projectRoot = "/p"
    /\ loadOut.consulted
    /\ DOMAIN tsconfigCache = {"/p"}
    /\ \E c \in loadOut.result : c.object = 2
    /\ returnedSinceClear["/q"] = {}

----
(* Properties of the pattern matching (checked under SpecAlias)             *)

\* The pattern and the template of the configuration that is matched.
MatchedPattern == (CHOOSE c \in resolveConfig : TRUE).paths[1].pattern

MatchedTemplate == (CHOOSE c \in resolveConfig : TRUE).paths[1].mappedPaths[1]

\* The position of the "*" of a sequence, 0 if it has none.
StarAt(p) == IF \E i \in 1..Len(p) : p[i] = "*"
             THEN CHOOSE i \in 1..Len(p) : p[i] = "*"
             ELSE 0

\* The captures of a specifier under a wildcard pattern: every w with
\* specifier = prefix w suffix.
Captures(specifier, pattern) ==
    {w \in SeqsUpTo(AliasChars, Len(specifier)) :
        specifier = SubSeq(pattern, 1, StarAt(pattern) - 1) \o w
                    \o SubSeq(pattern, StarAt(pattern) + 1, Len(pattern))}

\* The template with the capture in the place of its "*".
Substituted(template, w) ==
    IF StarAt(template) = 0 THEN template
    ELSE SubSeq(template, 1, StarAt(template) - 1) \o w
         \o SubSeq(template, StarAt(template) + 1, Len(template))

\* C29: a wildcard pattern prefix*suffix matches a specifier only when the
\* specifier is the prefix, a capture and the suffix, and the candidate is
\* the template with that capture in the place of "*"; a pattern without
\* "*" matches only the specifier equal to it.
C29_MatchIsPrefixCaptureSuffix ==
    (pc = "resolve" /\ matchOut # <<>>) =>
        IF StarAt(MatchedPattern) = 0
        THEN resolveFrom = MatchedPattern
        ELSE \E w \in Captures(resolveFrom, MatchedPattern) :
                matchOut = <<pathJoin(ProjectRoot, Substituted(MatchedTemplate, w), <<>>)>>

----
(* Consistency of the reports (checked under SpecImpact)                    *)

\* The sum of the counts of affectedByType.
RECURSIVE SumOverTypes(_, _)
SumOverTypes(byType, types) ==
    IF types = {} THEN 0
    ELSE LET t == CHOOSE x \in types : TRUE
         IN  byType[t] + SumOverTypes(byType, types \ {t})

\* The metrics of a report agree with its lists.
ConsistentReport(rep) ==
    /\ rep.metrics.changedFilesCount = Len(rep.changedFiles)
    /\ rep.metrics.affectedEntitiesCount = Len(rep.affectedEntities)
    /\ rep.metrics.affectedEntitiesCount
         = SumOverTypes(rep.metrics.affectedByType, DOMAIN rep.metrics.affectedByType)
    /\ \A a \in Range(rep.affectedEntities) : a.depth <= rep.metrics.maxDepth
    /\ IF rep.affectedEntities = <<>>
       THEN rep.metrics.maxDepth = 0
       ELSE /\ rep.metrics.maxDepth >= 1
            /\ \E a \in Range(rep.affectedEntities) : a.depth = rep.metrics.maxDepth
    /\ rep.metrics.affectedFilesCount <= rep.metrics.affectedEntitiesCount

\* The changed file is the ID of a node or the file of a node of the graph.
KnownToGraph(g, file) ==
    \E k \in DOMAIN g.nodes : k = file \/ Field(g.nodes[k], "file") = {file}

\* C30: the report of analyzeImpact and the report of filterByThreshold
\* have metrics that agree with their lists (changedFilesCount, the number
\* of records and the sum over the types, maxDepth as the maximum depth, 0
\* exactly without records and at least 1 otherwise, no more files than
\* records); analyzeImpact returns a report whatever files are listed, and
\* no record is due to a changed file that the graph does not know.
C30_MetricsAgreeWithLists ==
    /\ pc \in {"analyzed", "filtered"} =>
          /\ DOMAIN report = {"changedFiles", "affectedEntities", "metrics", "riskLevel"}
          /\ ConsistentReport(report)
          /\ \A a \in Range(report.affectedEntities) :
                KnownToGraph(impactGraph, a.changedBy)
    /\ pc = "filtered" => ConsistentReport(filtered)

\* C30 witness: src/d.ts, which the graph does not know, and src/a.ts are
\* listed as changed; the report counts both, has records of two types at
\* depths up to 2 or more, and all of them due to src/a.ts.
C30_Witness ==
    /\ pc = "analyzed"
    /\ changedFiles = <<"src/d.ts", "src/a.ts">>
    /\ report.metrics.changedFilesCount = 2
    /\ report.metrics.maxDepth >= 2
    /\ report.metrics.affectedByType["class"] >= 1
    /\ report.metrics.affectedByType["function"] >= 1
    /\ \A a \in Range(report.affectedEntities) : a.changedBy = "src/a.ts"

\* C30 witness (depths): the record pushed last is not the deepest one, and
\* the filtered report is the empty report of a report that has records.
C30_WitnessFiltered ==
    /\ pc = "filtered"
    /\ report.affectedEntities # <<>>
    /\ report.affectedEntities[Len(report.affectedEntities)].depth < report.metrics.maxDepth
    /\ filtered.affectedEntities = <<>>
    /\ filtered.metrics.maxDepth = 0

====
